---- MODULE Spec2Model ----
(***************************************************************************)
(* Rowset lifecycle (be/src/storage/rowset/rowset.h) and the compaction    *)
(* scheduler (be/src/storage/compaction_scheduler.cpp) of the storage      *)
(* engine, as state machines.                                              *)
(***************************************************************************)
EXTENDS Integers, FiniteSets, Sequences, TLC

\* ------------------------------------------------------------------------
\* Bounds of the model
\* ------------------------------------------------------------------------
NumThreads == 2
MaxHolds == 2
MaxCount == 2

RThreads == 1..NumThreads

\* ------------------------------------------------------------------------
\* Rowset: state
\* ------------------------------------------------------------------------
RowsetState == {"ROWSET_UNLOADED", "ROWSET_LOADED", "ROWSET_UNLOADING"}

VARIABLES
    rowset_state,     \* RowsetStateMachine::_rowset_state
    refs_by_reader,   \* Rowset::_refs_by_reader (atomic)
    resources_open,   \* TRUE between do_load() and do_close()
    lock,             \* Rowset::_lock: 0 when free, else the owning thread
    rpc,              \* where each thread is inside load()/close()/release()
    current_refs,     \* the local current_refs of close() / release()
    holds,            \* acquire() calls of a thread not yet matched by release()
    closes,           \* close() calls begun since the last on_load (saturating)
    do_closes,        \* do_close() executions since the last on_load (saturating)
    loads             \* do_load() executions since construction (saturating)

rvars == <<rowset_state, refs_by_reader, resources_open, lock, rpc, current_refs,
           holds, closes, do_closes, loads>>

\* ------------------------------------------------------------------------
\* Compaction scheduler: state
\* ------------------------------------------------------------------------
VARIABLES
    registry,          \* CompactionManager: the candidate set
    pool,              \* admitted tasks handed to the worker pool and not finished
    running,           \* CompactionManager: of those, the tasks that have started
                       \* and are registered as running
    tablet_state,      \* Tablet::tablet_state()
    need_compaction,   \* Tablet::need_compaction(type)
    compaction_task,   \* Tablet: a task of that type exists (the in-flight marker)
    tablet_lock,       \* Tablet::get_cumulative_lock() / get_base_lock(): holder
    last_failure_ms,   \* Tablet::last_*_compaction_failure_time()
    capacity_limit,    \* DataDir::reach_capacity_limit() answers true
    threads_per_disk,  \* config::*_compaction_num_threads_per_disk
    now_ms,            \* UnixMillis()
    pc,                \* where each scheduler is in schedule()
    cand,              \* compaction_candidate of _try_get_next_compaction_task
    tmp_candidates,    \* tmp_candidates of _try_get_next_compaction_task
    found,             \* found of _try_get_next_compaction_task
    updates,           \* candidate updates by ingestion so far
    env_steps,         \* changes of the environment so far
    expected,          \* history: the candidates a round is expected to admit, taken
                       \* when the round begins (Candidates when it expects nothing)
    capacity_skipped,  \* history: the <<tablet, type>> whose last evaluation ended
                       \* at the capacity check
    limit_skipped,     \* history: the <<tablet, type>> whose last evaluation ended
                       \* at the tablet lock, the per-disk limit or the failure
                       \* interval
    id_assigned,       \* CompactionTask::set_task_id() was called on the task the
                       \* tablet holds for that type
    round_log,         \* history: of a round of a scheduler that runs alone, as
                       \* long as nothing was inserted into the registry since it
                       \* began: the size the registry had then, the candidates
                       \* popped and the number of pops
    stale_ptr          \* history: the schedulers whose task pointer is to a task
                       \* the tablet has reset since

svars == <<registry, pool, tablet_state, need_compaction, compaction_task, tablet_lock,
           last_failure_ms, capacity_limit, threads_per_disk, now_ms, pc, cand,
           tmp_candidates, found, updates, env_steps, expected, capacity_skipped,
           limit_skipped, running, id_assigned, stale_ptr, round_log>>

\* ------------------------------------------------------------------------
\* A RowsetStateMachine driven on its own: state
\* ------------------------------------------------------------------------
VARIABLES
    sm_state,    \* RowsetStateMachine::_rowset_state of that machine
    sm_op,       \* the last call made on it ("none" before the first)
    sm_refs,     \* the argument refs_by_reader of that call (0 unless on_close)
    sm_from,     \* the state the call was made in
    sm_status,   \* the Status the call returned
    sm_calls     \* the calls made so far

mvars == <<sm_state, sm_op, sm_refs, sm_from, sm_status, sm_calls>>

\* The lake delta writer (storage/lake/delta_writer.cpp): one DeltaWriterImpl,
\* its memtable, its flush token and the tablet writer behind the sink.
VARIABLES
    dw_state,      \* "created", "open", "finished" or "closed"
    mem_table,     \* _mem_table: <<>> for nullptr, <<n>> for a table holding n rows
    flush_token,   \* the memtables submitted to _flush_token and not yet flushed
    num_rows,      \* _tablet_writer->num_rows(): the rows the sink has written
    txn_log_rows,  \* the num_rows finish() recorded in the transaction log
    accepted,      \* history: the rows of the chunks write() returned OK for
    writes         \* the write() calls made so far

dvars == <<dw_state, mem_table, flush_token, num_rows, txn_log_rows, accepted, writes>>

vars == <<rvars, svars, mvars, dvars>>

tvars == <<tablet_state, need_compaction, compaction_task, tablet_lock, last_failure_ms>>
evars == <<capacity_limit, threads_per_disk, now_ms, updates, env_steps>>
lvars == <<pc, cand, tmp_candidates, found>>
ivars == <<id_assigned, stale_ptr>>
hvars == <<expected, capacity_skipped, limit_skipped, ivars, round_log>>

Min(a, b) == IF a < b THEN a ELSE b

\* ------------------------------------------------------------------------
\* RowsetStateMachine
\* ------------------------------------------------------------------------
\* on_load() that accepts a rowset already loaded
on_load_idempotent(st) ==
    IF st \in {"ROWSET_UNLOADED", "ROWSET_LOADED"}
    THEN [state |-> "ROWSET_LOADED", ok |-> TRUE]
    ELSE [state |-> st, ok |-> FALSE]

on_load(st) ==
    IF st = "ROWSET_UNLOADED"
    THEN [state |-> "ROWSET_LOADED", ok |-> TRUE]
    ELSE [state |-> st, ok |-> FALSE]

\* on_close() with the reader count ignored
on_close_ignoring_refs(st, refs) ==
    IF st = "ROWSET_LOADED"
    THEN [state |-> "ROWSET_UNLOADED", ok |-> TRUE]
    ELSE [state |-> st, ok |-> FALSE]

on_close(st, refs) ==
    IF st = "ROWSET_LOADED"
    THEN [state |-> IF refs = 0 THEN "ROWSET_UNLOADED" ELSE "ROWSET_UNLOADING",
          ok |-> TRUE]
    ELSE [state |-> st, ok |-> FALSE]

\* on_release() that fails as it should but resets the state
on_release_resetting(st) ==
    IF st = "ROWSET_UNLOADING"
    THEN [state |-> "ROWSET_UNLOADED", ok |-> TRUE]
    ELSE [state |-> "ROWSET_UNLOADED", ok |-> FALSE]

on_release(st) ==
    IF st = "ROWSET_UNLOADING"
    THEN [state |-> "ROWSET_UNLOADED", ok |-> TRUE]
    ELSE [state |-> st, ok |-> FALSE]

\* do_close(): the resources are released; counted since the last on_load
do_close ==
    /\ resources_open' = FALSE
    /\ do_closes' = Min(do_closes + 1, MaxCount)

RowsetInit ==
    /\ rowset_state = "ROWSET_UNLOADED"
    /\ refs_by_reader = 0
    /\ resources_open = FALSE
    /\ lock = 0
    /\ rpc = [th \in RThreads |-> "idle"]
    /\ current_refs = [th \in RThreads |-> 0]
    /\ holds = [th \in RThreads |-> 0]
    /\ closes = 0
    /\ do_closes = 0
    /\ loads = 0

\* ------------------------------------------------------------------------
\* RowsetStateMachine: calls made directly on a machine
\* ------------------------------------------------------------------------
MaxCalls == 9
MaxRefs == 2

\* the Status of a transition
StatusOf(r) == IF r.ok THEN "OK" ELSE "InternalError"

\* RowsetStateMachine(): _rowset_state{ROWSET_UNLOADED}, nothing called yet
MachineInit ==
    /\ sm_state = "ROWSET_UNLOADED"
    /\ sm_op = "none"
    /\ sm_refs = 0
    /\ sm_from = "ROWSET_UNLOADED"
    /\ sm_status = "none"
    /\ sm_calls = 0

\* the result r of the call op(refs) is returned and the state written
Called(op, refs, r) ==
    /\ sm_calls < MaxCalls
    /\ sm_calls' = sm_calls + 1
    /\ sm_op' = op
    /\ sm_refs' = refs
    /\ sm_from' = sm_state
    /\ sm_state' = r.state
    /\ sm_status' = StatusOf(r)
    /\ UNCHANGED <<rvars, svars, dvars>>

call_on_load == Called("on_load", 0, on_load(sm_state))

call_on_close(refs) == Called("on_close", refs, on_close(sm_state, refs))

call_on_release == Called("on_release", 0, on_release(sm_state))

MachineNext ==
    \/ call_on_load
    \/ \E refs \in 0..MaxRefs : call_on_close(refs)
    \/ call_on_release

\* ------------------------------------------------------------------------
\* Rowset::acquire()
\* ------------------------------------------------------------------------
\* acquire() that only a loaded rowset accepts
acquire_loaded_only(th) ==
    /\ rpc[th] = "idle"
    /\ holds[th] < MaxHolds
    /\ rowset_state = "ROWSET_LOADED"
    /\ refs_by_reader' = refs_by_reader + 1
    /\ holds' = [holds EXCEPT ![th] = @ + 1]
    /\ UNCHANGED <<rowset_state, resources_open, lock, rpc, current_refs, closes,
                   do_closes, loads>>
    /\ UNCHANGED <<svars, mvars, dvars>>

\* acquire() whose increment is not atomic: it adds one to a stale value
acquire_lost_update(th) ==
    /\ rpc[th] = "idle"
    /\ holds[th] < MaxHolds
    /\ \E stale \in 0..refs_by_reader : refs_by_reader' = stale + 1
    /\ holds' = [holds EXCEPT ![th] = @ + 1]
    /\ UNCHANGED <<rowset_state, resources_open, lock, rpc, current_refs, closes,
                   do_closes, loads>>
    /\ UNCHANGED <<svars, mvars, dvars>>

acquire(th) ==
    /\ rpc[th] = "idle"
    /\ holds[th] < MaxHolds
    /\ refs_by_reader' = refs_by_reader + 1
    /\ holds' = [holds EXCEPT ![th] = @ + 1]
    /\ UNCHANGED <<rowset_state, resources_open, lock, rpc, current_refs, closes,
                   do_closes, loads>>
    /\ UNCHANGED <<svars, mvars, dvars>>

\* ------------------------------------------------------------------------
\* Rowset::release()
\* ------------------------------------------------------------------------
\* uint64_t current_refs = --_refs_by_reader; if (current_refs == 0) ...
release_dec(th) ==
    /\ rpc[th] = "idle"
    /\ holds[th] > 0
    /\ refs_by_reader' = refs_by_reader - 1
    /\ holds' = [holds EXCEPT ![th] = @ - 1]
    /\ current_refs' = [current_refs EXCEPT ![th] = 0]
    /\ rpc' = [rpc EXCEPT ![th] = IF refs_by_reader - 1 = 0 THEN "r_lock" ELSE "idle"]
    /\ UNCHANGED <<rowset_state, resources_open, lock, closes, do_closes, loads>>
    /\ UNCHANGED <<svars, mvars, dvars>>

\* release() that rejudges the count only, not the state
release_lock_any_state(th) ==
    /\ rpc[th] = "r_lock"
    /\ lock = 0
    /\ IF refs_by_reader = 0
       THEN /\ lock' = th
            /\ rpc' = [rpc EXCEPT ![th] = "r_close"]
       ELSE /\ lock' = 0
            /\ rpc' = [rpc EXCEPT ![th] = "idle"]
    /\ UNCHANGED <<rowset_state, refs_by_reader, resources_open, current_refs, holds,
                   closes, do_closes, loads>>
    /\ UNCHANGED <<svars, mvars, dvars>>

\* release_lock(_lock); rejudge _refs_by_reader and the state
release_lock(th) ==
    /\ rpc[th] = "r_lock"
    /\ lock = 0
    /\ IF refs_by_reader = 0 /\ rowset_state = "ROWSET_UNLOADING"
       THEN /\ lock' = th
            /\ rpc' = [rpc EXCEPT ![th] = "r_close"]
       ELSE /\ lock' = 0
            /\ rpc' = [rpc EXCEPT ![th] = "idle"]
    /\ UNCHANGED <<rowset_state, refs_by_reader, resources_open, current_refs, holds,
                   closes, do_closes, loads>>
    /\ UNCHANGED <<svars, mvars, dvars>>

\* first do close, then change state; the lock is released at the end of the block
release_close(th) ==
    /\ rpc[th] = "r_close"
    /\ lock = th
    /\ do_close
    /\ rowset_state' = on_release(rowset_state).state
    /\ lock' = 0
    /\ rpc' = [rpc EXCEPT ![th] = "idle"]
    /\ UNCHANGED <<refs_by_reader, current_refs, holds, closes, loads>>
    /\ UNCHANGED <<svars, mvars, dvars>>

\* ------------------------------------------------------------------------
\* Rowset::close()
\* ------------------------------------------------------------------------
\* the first, unlocked read of the state
close_begin(th) ==
    /\ rpc[th] = "idle"
    /\ closes' = Min(closes + 1, MaxCount)
    /\ rpc' = [rpc EXCEPT ![th] = IF rowset_state # "ROWSET_LOADED" THEN "idle" ELSE "c_lock"]
    /\ UNCHANGED <<rowset_state, refs_by_reader, resources_open, lock, current_refs,
                   holds, do_closes, loads>>
    /\ UNCHANGED <<svars, mvars, dvars>>

\* close() that does not read the state again under the mutex
close_lock_no_recheck(th) ==
    /\ rpc[th] = "c_lock"
    /\ lock = 0
    /\ current_refs' = [current_refs EXCEPT ![th] = refs_by_reader]
    /\ lock' = th
    /\ rpc' = [rpc EXCEPT ![th] = "c_close"]
    /\ UNCHANGED <<rowset_state, refs_by_reader, resources_open, holds, closes,
                   do_closes, loads>>
    /\ UNCHANGED <<svars, mvars, dvars>>

\* close() whose mutex does not exclude a second closer
close_lock_not_exclusive(th) ==
    /\ rpc[th] = "c_lock"
    /\ current_refs' = [current_refs EXCEPT ![th] =
                           IF rowset_state # "ROWSET_LOADED" THEN 0 ELSE refs_by_reader]
    /\ IF rowset_state # "ROWSET_LOADED"
       THEN /\ lock' = lock
            /\ rpc' = [rpc EXCEPT ![th] = "idle"]
       ELSE /\ lock' = th
            /\ rpc' = [rpc EXCEPT ![th] = "c_close"]
    /\ UNCHANGED <<rowset_state, refs_by_reader, resources_open, holds, closes,
                   do_closes, loads>>
    /\ UNCHANGED <<svars, mvars, dvars>>

\* close_lock(_lock); current_refs = _refs_by_reader; the state is read again
close_lock(th) ==
    /\ rpc[th] = "c_lock"
    /\ lock = 0
    /\ current_refs' = [current_refs EXCEPT ![th] =
                           IF rowset_state # "ROWSET_LOADED" THEN 0 ELSE refs_by_reader]
    /\ IF rowset_state # "ROWSET_LOADED"
       THEN /\ lock' = 0
            /\ rpc' = [rpc EXCEPT ![th] = "idle"]
       ELSE /\ lock' = th
            /\ rpc' = [rpc EXCEPT ![th] = "c_close"]
    /\ UNCHANGED <<rowset_state, refs_by_reader, resources_open, holds, closes,
                   do_closes, loads>>
    /\ UNCHANGED <<svars, mvars, dvars>>

\* close() that never releases the resources itself
close_do_close_never(th) ==
    /\ rpc[th] = "c_close"
    /\ lock = th
    /\ rpc' = [rpc EXCEPT ![th] = "c_state"]
    /\ UNCHANGED <<rowset_state, refs_by_reader, resources_open, lock, current_refs,
                   holds, closes, do_closes, loads>>
    /\ UNCHANGED <<svars, mvars, dvars>>

\* close() that releases the resources whatever the reader count
close_do_close_always(th) ==
    /\ rpc[th] = "c_close"
    /\ lock = th
    /\ do_close
    /\ rpc' = [rpc EXCEPT ![th] = "c_state"]
    /\ UNCHANGED <<rowset_state, refs_by_reader, lock, current_refs, holds, closes, loads>>
    /\ UNCHANGED <<svars, mvars, dvars>>

\* if (current_refs == 0) do_close();
close_do_close(th) ==
    /\ rpc[th] = "c_close"
    /\ lock = th
    /\ IF current_refs[th] = 0
       THEN do_close
       ELSE UNCHANGED <<resources_open, do_closes>>
    /\ rpc' = [rpc EXCEPT ![th] = "c_state"]
    /\ UNCHANGED <<rowset_state, refs_by_reader, lock, current_refs, holds, closes, loads>>
    /\ UNCHANGED <<svars, mvars, dvars>>

\* close() that returns with the mutex still held when readers are left
close_on_close_keeping_lock(th) ==
    /\ rpc[th] = "c_state"
    /\ lock = th
    /\ rowset_state' = on_close(rowset_state, current_refs[th]).state
    /\ lock' = IF current_refs[th] = 0 THEN 0 ELSE th
    /\ current_refs' = [current_refs EXCEPT ![th] = 0]
    /\ rpc' = [rpc EXCEPT ![th] = "idle"]
    /\ UNCHANGED <<refs_by_reader, resources_open, holds, closes, do_closes, loads>>
    /\ UNCHANGED <<svars, mvars, dvars>>

\* st = _rowset_state_machine.on_close(current_refs); the lock is released
close_on_close(th) ==
    /\ rpc[th] = "c_state"
    /\ lock = th
    /\ rowset_state' = on_close(rowset_state, current_refs[th]).state
    /\ lock' = 0
    /\ current_refs' = [current_refs EXCEPT ![th] = 0]
    /\ rpc' = [rpc EXCEPT ![th] = "idle"]
    /\ UNCHANGED <<refs_by_reader, resources_open, holds, closes, do_closes, loads>>
    /\ UNCHANGED <<svars, mvars, dvars>>

\* ------------------------------------------------------------------------
\* Rowset::load()
\* ------------------------------------------------------------------------
\* the first, unlocked read of the state: nothing to do when already loaded
load_begin(th) ==
    /\ rpc[th] = "idle"
    /\ rpc' = [rpc EXCEPT ![th] = IF rowset_state = "ROWSET_LOADED" THEN "idle" ELSE "l_lock"]
    /\ UNCHANGED <<rowset_state, refs_by_reader, resources_open, lock, current_refs,
                   holds, closes, do_closes, loads>>
    /\ UNCHANGED <<svars, mvars, dvars>>

\* load() that does not read the state again under the mutex
load_lock_no_recheck(th) ==
    /\ rpc[th] = "l_lock"
    /\ lock = 0
    /\ lock' = th
    /\ rpc' = [rpc EXCEPT ![th] = "l_load"]
    /\ UNCHANGED <<rowset_state, refs_by_reader, resources_open, current_refs, holds,
                   closes, do_closes, loads>>
    /\ UNCHANGED <<svars, mvars, dvars>>

\* load_lock(_lock); only an unloaded rowset is loaded
load_lock(th) ==
    /\ rpc[th] = "l_lock"
    /\ lock = 0
    /\ IF rowset_state = "ROWSET_UNLOADED"
       THEN /\ lock' = th
            /\ rpc' = [rpc EXCEPT ![th] = "l_load"]
       ELSE /\ lock' = 0
            /\ rpc' = [rpc EXCEPT ![th] = "idle"]
    /\ UNCHANGED <<rowset_state, refs_by_reader, resources_open, current_refs, holds,
                   closes, do_closes, loads>>
    /\ UNCHANGED <<svars, mvars, dvars>>

\* do_load(), then on_load(); the lock is released
load_do_load(th) ==
    /\ rpc[th] = "l_load"
    /\ lock = th
    /\ resources_open' = TRUE
    /\ rowset_state' = on_load(rowset_state).state
    /\ closes' = 0
    /\ do_closes' = 0
    /\ loads' = Min(loads + 1, MaxCount)
    /\ lock' = 0
    /\ rpc' = [rpc EXCEPT ![th] = "idle"]
    /\ UNCHANGED <<refs_by_reader, current_refs, holds>>
    /\ UNCHANGED <<svars, mvars, dvars>>

RowsetNext ==
    \E th \in RThreads :
        \/ acquire(th)
        \/ release_dec(th)
        \/ release_lock(th)
        \/ release_close(th)
        \/ close_begin(th)
        \/ close_lock(th)
        \/ close_do_close(th)
        \/ close_on_close(th)
        \/ load_begin(th)
        \/ load_lock(th)
        \/ load_do_load(th)

\* ========================================================================
\* Lake delta writer
\* ========================================================================
MaxWrites == 4
MaxChunkRows == 2
MemTableRows == 3

RECURSIVE SumRows(_)
SumRows(q) == IF q = <<>> THEN 0 ELSE Head(q) + SumRows(Tail(q))

\* The state after construction: nothing opened, no memtable, nothing written.
DeltaInit ==
    /\ dw_state = "created"
    /\ mem_table = <<>>
    /\ flush_token = <<>>
    /\ num_rows = 0
    /\ txn_log_rows = 0
    /\ accepted = 0
    /\ writes = 0

\* MemTable::insert(chunk, ...) on a table holding `rows` rows: the rows after
\* the insert, and whether the table suggests a flush (it is full).
mem_table_rows == IF mem_table = <<>> THEN 0 ELSE mem_table[1]
insert(size) == mem_table_rows + size
is_full(rows) == rows >= MemTableRows

\* FlushToken::wait(): every submitted memtable has been flushed through the
\* sink (TabletWriterSink::flush_chunk writes its rows to the tablet writer).
wait_rows == num_rows + SumRows(flush_token)

\* DeltaWriterImpl::open(): creates the tablet writer, the sink and the token.
dw_open ==
    /\ dw_state = "created"
    /\ dw_state' = "open"
    /\ UNCHANGED <<mem_table, flush_token, num_rows, txn_log_rows, accepted, writes>>
    /\ UNCHANGED <<rvars, svars, mvars>>

\* DeltaWriterImpl::write() returning OK.  limit_exceeded stands for either
\* memory tracker being over its limit after the insert.
dw_write(size, limit_exceeded) ==
    /\ dw_state = "open"
    /\ writes < MaxWrites
    /\ LET rows == insert(size)
           full == is_full(rows)
       IN  /\ IF limit_exceeded
                 THEN \* flush_memtable(): submit, then wait for the token
                      /\ num_rows' = wait_rows + rows
                      /\ flush_token' = <<>>
                      /\ mem_table' = <<>>
                 ELSE IF full
                 THEN \* flush_memtable_async(): submit only
                      /\ flush_token' = Append(flush_token, rows)
                      /\ mem_table' = <<>>
                      /\ UNCHANGED num_rows
                 ELSE /\ mem_table' = <<rows>>
                      /\ UNCHANGED <<flush_token, num_rows>>
    /\ accepted' = accepted + size
    /\ writes' = writes + 1
    /\ UNCHANGED <<dw_state, txn_log_rows>>
    /\ UNCHANGED <<rvars, svars, mvars>>

\* The flush executor runs the oldest submitted memtable: MemTable::flush()
\* hands its rows to the sink.
flush_one ==
    /\ flush_token # <<>>
    /\ num_rows' = num_rows + Head(flush_token)
    /\ flush_token' = Tail(flush_token)
    /\ UNCHANGED <<dw_state, mem_table, txn_log_rows, accepted, writes>>
    /\ UNCHANGED <<rvars, svars, mvars>>

\* DeltaWriterImpl::finish() returning OK: waits for the token, finishes the
\* tablet writer and records its num_rows in the transaction log.  It does
\* not touch _mem_table.
dw_finish ==
    /\ dw_state = "open"
    /\ dw_state' = "finished"
    /\ num_rows' = wait_rows
    /\ flush_token' = <<>>
    /\ txn_log_rows' = wait_rows
    /\ UNCHANGED <<mem_table, accepted, writes>>
    /\ UNCHANGED <<rvars, svars, mvars>>

\* DeltaWriterImpl::close(): waits for the token and destroys the members.
dw_close ==
    /\ dw_state \in {"open", "finished"}
    /\ dw_state' = "closed"
    /\ num_rows' = wait_rows
    /\ flush_token' = <<>>
    /\ mem_table' = <<>>
    /\ UNCHANGED <<txn_log_rows, accepted, writes>>
    /\ UNCHANGED <<rvars, svars, mvars>>

DeltaNext ==
    \/ dw_open
    \/ \E size \in 1..MaxChunkRows, limit_exceeded \in BOOLEAN : dw_write(size, limit_exceeded)
    \/ flush_one
    \/ dw_finish
    \/ dw_close

\* ========================================================================
\* Compaction scheduler
\* ========================================================================
MaxTaskNum == 2
MaxPoolSize == 2
MaxTicks == 2
MaxUpdates == 1
MaxEnvSteps == 1
MinFailureInterval == 1

Schedulers == {"S1", "S2"}
Tablets == {"T1", "T2"}
Kinds == {"CUMULATIVE_COMPACTION", "BASE_COMPACTION"}
\* the compaction score the tablet reports for a kind
compaction_score(t, k) == IF k = "CUMULATIVE_COMPACTION" THEN 5 ELSE 3
\* all tablets live in one data directory
StartTime == MinFailureInterval + 1
MaxTime == StartTime + MaxTicks

\* CompactionCandidate {tablet, type, score}; a null tablet makes it invalid
Candidate(t, k) == [tablet |-> t, type |-> k, score |-> compaction_score(t, k)]
Candidates == {Candidate(t, k) : t \in Tablets, k \in Kinds}
NoCandidate == [tablet |-> "null", type |-> "BASE_COMPACTION", score |-> 0]
is_valid(c) == c.tablet # "null"


RECURSIVE SumOver(_, _)
SumOver(S, f) ==
    IF S = {} THEN 0
    ELSE LET x == CHOOSE y \in S : TRUE IN f[x] + SumOver(S \ {x}, f)

\* ------------------------------------------------------------------------
\* CompactionManager
\* ------------------------------------------------------------------------
candidates_size == Cardinality(registry)

running_tasks_num ==
    SumOver(Tablets \X Kinds, [x \in Tablets \X Kinds |-> running[x[1]][x[2]]])

check_if_exceed_max_task_num == running_tasks_num >= MaxTaskNum

running_tasks_num_for_dir(k) == SumOver(Tablets, [t \in Tablets |-> running[t][k]])

\* the candidates pick_candidate() may return: those of the highest score
Highest(reg) == {c \in reg : \A d \in reg : d.score <= c.score}

insert_candidates(reg, cs) == reg \cup cs

update_candidates(reg, t, k) ==
    {c \in reg : ~(c.tablet = t /\ c.type = k)} \cup {Candidate(t, k)}

\* ------------------------------------------------------------------------
\* Tablet
\* ------------------------------------------------------------------------
\* get_compaction(type, create_if_not_exist): the existing task, or a new one when
\* asked to create and the tablet needs compaction of that type, else none
get_compaction(t, k, create) ==
    IF compaction_task[t][k] THEN "existing"
    ELSE IF create /\ need_compaction[t][k] THEN "created"
    ELSE "none"

reset_compaction(marker, t, k) == [marker EXCEPT ![t][k] = FALSE]

\* the schedulers that hold a pointer to a task of tablet t and kind k: from
\* get_compaction(type, true) to the end of the evaluation or of the submission
task_holders(t, k) ==
    {s \in Schedulers : /\ cand[s].tablet = t /\ cand[s].type = k
                        /\ pc[s] \in {"trylock", "locked", "insert", "submit"}}

\* what reset_compaction() by scheduler s ("null": by the task itself) means for
\* the task the tablet held: the tablet holds no task any more, whose id is then
\* not assigned, and the pointers of the other holders are to a task it let go
task_is_reset(s, t, k) ==
    /\ id_assigned' = [id_assigned EXCEPT ![t][k] = FALSE]
    /\ stale_ptr' = (stale_ptr \cup task_holders(t, k)) \ {s}

\* compaction_task->set_task_id(next_compaction_task_id()) by scheduler s, which
\* then lets go of its pointer
set_task_id(s, t, k) ==
    /\ id_assigned' = IF s \in stale_ptr THEN id_assigned
                      ELSE [id_assigned EXCEPT ![t][k] = TRUE]
    /\ stale_ptr' = stale_ptr \ {s}

\* the tasks the worker pool holds, queued or started
pool_size == SumOver(Tablets \X Kinds, [x \in Tablets \X Kinds |-> pool[x[1]][x[2]]])

\* ------------------------------------------------------------------------
\* CompactionScheduler
\* ------------------------------------------------------------------------
\* no round is logged
NoLog == [clean |-> FALSE, size |-> 0, popped |-> {}, pops |-> 0]

_can_schedule_next == ~check_if_exceed_max_task_num /\ candidates_size > 0

\* the precondition without the check of the tablet state
_check_precondition_any_state(c) ==
    /\ is_valid(c)
    /\ need_compaction[c.tablet][c.type]
    /\ get_compaction(c.tablet, c.type, FALSE) = "none"

_check_precondition(c) ==
    /\ is_valid(c)
    /\ need_compaction[c.tablet][c.type]
    /\ tablet_state[c.tablet] = "TABLET_RUNNING"
    /\ get_compaction(c.tablet, c.type, FALSE) = "none"

\* the per-disk limit taken as reached one task too early
per_disk_limit_off_by_one(k) ==
    threads_per_disk[k] >= 0 /\ running_tasks_num_for_dir(k) + 1 >= threads_per_disk[k]

\* the per-disk limit that takes a negative maximum for a limit too
per_disk_limit_negative_counts(k) ==
    running_tasks_num_for_dir(k) >= threads_per_disk[k]

\* the per-disk limit of the running tasks of a kind is reached
per_disk_limit_reached(k) ==
    threads_per_disk[k] >= 0 /\ running_tasks_num_for_dir(k) >= threads_per_disk[k]

\* the failure interval compared with < instead of <=
too_often_strict(t, k) == now_ms - last_failure_ms[t][k] < MinFailureInterval

too_often(t, k) == now_ms - last_failure_ms[t][k] <= MinFailureInterval

\* every check of the selection passes for the candidate
Admissible(c) ==
    /\ tablet_state[c.tablet] = "TABLET_RUNNING"
    /\ need_compaction[c.tablet][c.type]
    /\ ~compaction_task[c.tablet][c.type]
    /\ ~capacity_limit
    /\ tablet_lock[c.tablet][c.type] = "free"
    /\ ~per_disk_limit_reached(c.type)
    /\ ~too_often(c.tablet, c.type)

SchedInit ==
    /\ registry \in SUBSET Candidates \ {{}}
    /\ pool = [t \in Tablets |-> [k \in Kinds |-> 0]]
    /\ tablet_state = [t \in Tablets |-> "TABLET_RUNNING"]
    /\ need_compaction = [t \in Tablets |-> [k \in Kinds |-> TRUE]]
    /\ compaction_task = [t \in Tablets |-> [k \in Kinds |-> FALSE]]
    /\ tablet_lock = [t \in Tablets |-> [k \in Kinds |-> "free"]]
    /\ last_failure_ms = [t \in Tablets |-> [k \in Kinds |-> 0]]
    /\ capacity_limit = FALSE
    /\ threads_per_disk = [k \in Kinds |-> 1]
    /\ now_ms = StartTime
    /\ pc = [s \in Schedulers |-> "wait"]
    /\ cand = [s \in Schedulers |-> NoCandidate]
    /\ tmp_candidates = [s \in Schedulers |-> {}]
    /\ found = [s \in Schedulers |-> FALSE]
    /\ updates = 0
    /\ env_steps = 0
    /\ expected = [s \in Schedulers |-> Candidates]
    /\ capacity_skipped = {}
    /\ limit_skipped = {}
    /\ running = [t \in Tablets |-> [k \in Kinds |-> 0]]
    /\ id_assigned = [t \in Tablets |-> [k \in Kinds |-> FALSE]]
    /\ stale_ptr = {}
    /\ round_log = [s \in Schedulers |-> NoLog]

\* _wait_to_run(): returns once _can_schedule_next() holds; a round begins
wait_to_run_returns(s) ==
    /\ pc[s] = "wait"
    /\ _can_schedule_next
    /\ pc' = [pc EXCEPT ![s] = "select"]
    /\ UNCHANGED <<registry, pool, running, tvars, evars, cand, tmp_candidates, found,
                   capacity_skipped, limit_skipped, ivars>>
    /\ UNCHANGED <<rvars, mvars, dvars>>

_wait_to_run(s) ==
    /\ wait_to_run_returns(s)
    /\ UNCHANGED <<expected, round_log>>

\* the same step of a scheduler that runs alone, with the history of what the
\* round is expected to admit: the highest candidates, when the environment never
\* changed and every candidate of the registry is admissible as the round begins
_wait_to_run_alone(s) ==
    /\ wait_to_run_returns(s)
    /\ expected' = [expected EXCEPT ![s] =
                       IF /\ env_steps = 0 /\ updates = 0 /\ running = pool
                          /\ \A c \in registry : Admissible(c)
                       THEN Highest(registry) ELSE Candidates]
    /\ round_log' = [round_log EXCEPT ![s] =
                        [clean |-> TRUE, size |-> Cardinality(registry),
                         popped |-> {}, pops |-> 0]]

\* _wait_to_run() while _can_schedule_next() is false: the thread blocks inside
\* _cv.wait_for(lk, 5000ms, pred); the check and the block are one step, made
\* under _mutex
wait_blocks(s) ==
    /\ pc[s] = "wait"
    /\ ~_can_schedule_next
    /\ pc' = [pc EXCEPT ![s] = "blocked"]
    /\ UNCHANGED <<registry, pool, running, tvars, evars, cand, tmp_candidates, found>>
    /\ UNCHANGED <<rvars, mvars, dvars, hvars>>

\* a wait that no timeout ends
wait_never_timeout(s) ==
    /\ pc[s] = "blocked"
    /\ UNCHANGED vars

\* the 5000ms of wait_for have passed without a wake-up: wait_for returns the
\* predicate and the loop of _wait_to_run() checks it again
wait_timeout(s) ==
    /\ pc[s] = "blocked"
    /\ pc' = [pc EXCEPT ![s] = "wait"]
    /\ UNCHANGED <<registry, pool, running, tvars, evars, cand, tmp_candidates, found>>
    /\ UNCHANGED <<rvars, mvars, dvars, hvars>>

\* notify(): _cv.notify_one() under _mutex. It wakes the thread when it is inside
\* one of the two wait_for calls, which then checks again or starts its next
\* round; at any other moment nobody waits on _cv and the notification is lost
notify(s) ==
    /\ pc' = [pc EXCEPT ![s] = IF @ \in {"blocked", "sleep"} THEN "wait" ELSE @]
    /\ UNCHANGED <<registry, pool, running, tvars, evars, cand, tmp_candidates, found>>
    /\ UNCHANGED <<rvars, mvars, dvars, hvars>>

\* the head of the selection loop without the check of _can_schedule_next()
select_next_unchecked(s) ==
    /\ pc[s] = "select"
    /\ pc' = [pc EXCEPT ![s] = "pick"]
    /\ UNCHANGED <<registry, pool, running, tvars, evars, cand, tmp_candidates, found>>
    /\ UNCHANGED <<rvars, mvars, dvars, hvars>>

\* the head of the selection loop: if (!_can_schedule_next()) break;
select_next(s) ==
    /\ pc[s] = "select"
    /\ pc' = [pc EXCEPT ![s] = IF _can_schedule_next THEN "pick" ELSE "insert"]
    /\ UNCHANGED <<registry, pool, running, tvars, evars, cand, tmp_candidates, found>>
    /\ UNCHANGED <<rvars, mvars, dvars, hvars>>

\* pick_candidate() returning any candidate of the registry, whatever its rank
pick_candidate_unranked(s) ==
    /\ pc[s] = "pick"
    /\ IF registry = {}
       THEN /\ cand' = [cand EXCEPT ![s] = NoCandidate]
            /\ pc' = [pc EXCEPT ![s] = "insert"]
            /\ UNCHANGED <<registry, round_log>>
       ELSE \E c \in registry :
            /\ registry' = registry \ {c}
            /\ cand' = [cand EXCEPT ![s] = c]
            /\ pc' = [pc EXCEPT ![s] = "precond"]
            /\ round_log' = [round_log EXCEPT ![s] =
                                IF @.clean
                                THEN [@ EXCEPT !.popped = @ \cup {c}, !.pops = @ + 1]
                                ELSE @]
    /\ UNCHANGED <<pool, running, tvars, evars, tmp_candidates, found>>
    /\ UNCHANGED <<rvars, mvars, dvars, expected, capacity_skipped, limit_skipped, ivars>>

\* compaction_candidate = pick_candidate(); an invalid candidate ends the loop
pick_candidate(s) ==
    /\ pc[s] = "pick"
    /\ IF registry = {}
       THEN /\ cand' = [cand EXCEPT ![s] = NoCandidate]
            /\ pc' = [pc EXCEPT ![s] = "insert"]
            /\ UNCHANGED <<registry, round_log>>
       ELSE \E c \in Highest(registry) :
            /\ registry' = registry \ {c}
            /\ cand' = [cand EXCEPT ![s] = c]
            /\ pc' = [pc EXCEPT ![s] = "precond"]
            /\ round_log' = [round_log EXCEPT ![s] =
                                IF @.clean
                                THEN [@ EXCEPT !.popped = @ \cup {c}, !.pops = @ + 1]
                                ELSE @]
    /\ UNCHANGED <<pool, running, tvars, evars, tmp_candidates, found>>
    /\ UNCHANGED <<rvars, mvars, dvars, expected, capacity_skipped, limit_skipped, ivars>>

\* _can_do_compaction(): need_reschedule = false; the precondition check; a
\* candidate that fails it is neither kept nor admitted
check_precondition(s) ==
    /\ pc[s] = "precond"
    /\ IF _check_precondition(cand[s])
       THEN /\ pc' = [pc EXCEPT ![s] = "create"]
            /\ UNCHANGED cand
       ELSE /\ pc' = [pc EXCEPT ![s] = "select"]
            /\ cand' = [cand EXCEPT ![s] = NoCandidate]
    /\ capacity_skipped' = capacity_skipped \ {<<cand[s].tablet, cand[s].type>>}
    /\ limit_skipped' = limit_skipped \ {<<cand[s].tablet, cand[s].type>>}
    /\ UNCHANGED <<registry, pool, running, tvars, evars, tmp_candidates, found,
                   expected, round_log>>
    /\ UNCHANGED <<rvars, mvars, dvars, ivars>>

\* the creation of the task without the capacity check of the data dir
create_task_ignoring_capacity(s) ==
    /\ pc[s] = "create"
    /\ LET t == cand[s].tablet
           k == cand[s].type
           tmp_task == get_compaction(t, k, TRUE)
       IN IF tmp_task = "none"
          THEN \* creating the task failed: need_reschedule stays true
               /\ tmp_candidates' = [tmp_candidates EXCEPT ![s] = @ \cup {cand[s]}]
               /\ cand' = [cand EXCEPT ![s] = NoCandidate]
               /\ pc' = [pc EXCEPT ![s] = "select"]
               /\ UNCHANGED <<compaction_task, capacity_skipped>>
          ELSE /\ compaction_task' = [compaction_task EXCEPT ![t][k] = TRUE]
               /\ IF FALSE
                  THEN \* the data dir reaches its capacity limit: return false
                       /\ tmp_candidates' = [tmp_candidates EXCEPT ![s] = @ \cup {cand[s]}]
                       /\ cand' = [cand EXCEPT ![s] = NoCandidate]
                       /\ pc' = [pc EXCEPT ![s] = "select"]
                       /\ capacity_skipped' = capacity_skipped \cup {<<t, k>>}
                  ELSE /\ pc' = [pc EXCEPT ![s] = "trylock"]
                       /\ UNCHANGED <<cand, tmp_candidates, capacity_skipped>>
    /\ UNCHANGED <<registry, pool, running, tablet_state, need_compaction, tablet_lock,
                   last_failure_ms, evars, found, expected, round_log, limit_skipped, ivars>>
    /\ UNCHANGED <<rvars, mvars, dvars>>

\* need_reschedule = true; tmp_task = get_compaction(type, true); the capacity check
create_task(s) ==
    /\ pc[s] = "create"
    /\ LET t == cand[s].tablet
           k == cand[s].type
           tmp_task == get_compaction(t, k, TRUE)
       IN IF tmp_task = "none"
          THEN \* creating the task failed: need_reschedule stays true
               /\ tmp_candidates' = [tmp_candidates EXCEPT ![s] = @ \cup {cand[s]}]
               /\ cand' = [cand EXCEPT ![s] = NoCandidate]
               /\ pc' = [pc EXCEPT ![s] = "select"]
               /\ UNCHANGED <<compaction_task, capacity_skipped>>
          ELSE /\ compaction_task' = [compaction_task EXCEPT ![t][k] = TRUE]
               /\ IF capacity_limit
                  THEN \* the data dir reaches its capacity limit: return false
                       /\ tmp_candidates' = [tmp_candidates EXCEPT ![s] = @ \cup {cand[s]}]
                       /\ cand' = [cand EXCEPT ![s] = NoCandidate]
                       /\ pc' = [pc EXCEPT ![s] = "select"]
                       /\ capacity_skipped' = capacity_skipped \cup {<<t, k>>}
                  ELSE /\ pc' = [pc EXCEPT ![s] = "trylock"]
                       /\ UNCHANGED <<cand, tmp_candidates, capacity_skipped>>
    /\ UNCHANGED <<registry, pool, running, tablet_state, need_compaction, tablet_lock,
                   last_failure_ms, evars, found, expected, round_log, limit_skipped, ivars>>
    /\ UNCHANGED <<rvars, mvars, dvars>>

\* try_lock() whose failure loses the candidate instead of keeping it
try_lock_losing(s) ==
    /\ pc[s] = "trylock"
    /\ LET t == cand[s].tablet
           k == cand[s].type
       IN IF tablet_lock[t][k] # "free"
          THEN /\ compaction_task' = reset_compaction(compaction_task, t, k)
               /\ task_is_reset(s, t, k)
               /\ cand' = [cand EXCEPT ![s] = NoCandidate]
               /\ pc' = [pc EXCEPT ![s] = "select"]
               /\ limit_skipped' = limit_skipped \cup {<<t, k>>}
               /\ UNCHANGED <<tablet_lock, tmp_candidates>>
          ELSE /\ tablet_lock' = [tablet_lock EXCEPT ![t][k] = s]
               /\ pc' = [pc EXCEPT ![s] = "locked"]
               /\ UNCHANGED <<compaction_task, tmp_candidates, cand, limit_skipped, ivars>>
    /\ UNCHANGED <<registry, pool, running, tablet_state, need_compaction, last_failure_ms,
                   evars, found>>
    /\ UNCHANGED <<rvars, mvars, dvars, expected, round_log, capacity_skipped>>

\* a try_lock whose failure puts the candidate back into the registry at once
try_lock_reinserting(s) ==
    /\ pc[s] = "trylock"
    /\ LET t == cand[s].tablet
           k == cand[s].type
       IN IF tablet_lock[t][k] # "free"
          THEN /\ compaction_task' = reset_compaction(compaction_task, t, k)
               /\ task_is_reset(s, t, k)
               /\ registry' = insert_candidates(registry, {cand[s]})
               /\ cand' = [cand EXCEPT ![s] = NoCandidate]
               /\ pc' = [pc EXCEPT ![s] = "select"]
               /\ limit_skipped' = limit_skipped \cup {<<t, k>>}
               /\ UNCHANGED tablet_lock
          ELSE /\ tablet_lock' = [tablet_lock EXCEPT ![t][k] = s]
               /\ pc' = [pc EXCEPT ![s] = "locked"]
               /\ UNCHANGED <<registry, compaction_task, cand, limit_skipped, ivars>>
    /\ UNCHANGED <<pool, running, tablet_state, need_compaction, last_failure_ms, evars,
                   found, tmp_candidates>>
    /\ UNCHANGED <<rvars, mvars, dvars, expected, round_log, capacity_skipped>>

\* a try_lock on one lock for the whole tablet: it fails when the lock of either
\* kind is taken
try_lock_one_per_tablet(s) ==
    /\ pc[s] = "trylock"
    /\ LET t == cand[s].tablet
           k == cand[s].type
       IN IF \E j \in Kinds : tablet_lock[t][j] # "free"
          THEN /\ compaction_task' = reset_compaction(compaction_task, t, k)
               /\ task_is_reset(s, t, k)
               /\ tmp_candidates' = [tmp_candidates EXCEPT ![s] = @ \cup {cand[s]}]
               /\ cand' = [cand EXCEPT ![s] = NoCandidate]
               /\ pc' = [pc EXCEPT ![s] = "select"]
               /\ limit_skipped' = limit_skipped \cup {<<t, k>>}
               /\ UNCHANGED tablet_lock
          ELSE /\ tablet_lock' = [tablet_lock EXCEPT ![t][k] = s]
               /\ pc' = [pc EXCEPT ![s] = "locked"]
               /\ UNCHANGED <<compaction_task, tmp_candidates, cand, limit_skipped, ivars>>
    /\ UNCHANGED <<registry, pool, running, tablet_state, need_compaction, last_failure_ms,
                   evars, found>>
    /\ UNCHANGED <<rvars, mvars, dvars, expected, round_log, capacity_skipped>>

\* a lock() in place of the try_lock: it waits for the holder
try_lock_blocking(s) ==
    /\ pc[s] = "trylock"
    /\ LET t == cand[s].tablet
           k == cand[s].type
       IN /\ tablet_lock[t][k] = "free"
          /\ tablet_lock' = [tablet_lock EXCEPT ![t][k] = s]
          /\ pc' = [pc EXCEPT ![s] = "locked"]
    /\ UNCHANGED <<registry, pool, running, tablet_state, need_compaction, compaction_task,
                   last_failure_ms, evars, cand, tmp_candidates, found>>
    /\ UNCHANGED <<rvars, mvars, dvars, hvars>>

\* _can_do_compaction_task(): std::unique_lock lk(lock, std::try_to_lock)
try_lock(s) ==
    /\ pc[s] = "trylock"
    /\ LET t == cand[s].tablet
           k == cand[s].type
       IN IF tablet_lock[t][k] # "free"
          THEN \* skip the tablet; reset_op resets the task of the tablet
               /\ compaction_task' = reset_compaction(compaction_task, t, k)
               /\ task_is_reset(s, t, k)
               /\ tmp_candidates' = [tmp_candidates EXCEPT ![s] = @ \cup {cand[s]}]
               /\ cand' = [cand EXCEPT ![s] = NoCandidate]
               /\ pc' = [pc EXCEPT ![s] = "select"]
               /\ limit_skipped' = limit_skipped \cup {<<t, k>>}
               /\ UNCHANGED tablet_lock
          ELSE /\ tablet_lock' = [tablet_lock EXCEPT ![t][k] = s]
               /\ pc' = [pc EXCEPT ![s] = "locked"]
               /\ UNCHANGED <<compaction_task, tmp_candidates, cand, limit_skipped, ivars>>
    /\ UNCHANGED <<registry, pool, running, tablet_state, need_compaction, last_failure_ms,
                   evars, found>>
    /\ UNCHANGED <<rvars, mvars, dvars, expected, round_log, capacity_skipped>>

\* the checks under a lock that a return of false does not release
check_limits_keeping_lock(s) ==
    /\ pc[s] = "locked"
    /\ LET t == cand[s].tablet
           k == cand[s].type
       IN IF per_disk_limit_reached(k) \/ too_often(t, k)
          THEN /\ compaction_task' = reset_compaction(compaction_task, t, k)
               /\ task_is_reset(s, t, k)
               /\ tmp_candidates' = [tmp_candidates EXCEPT ![s] = @ \cup {cand[s]}]
               /\ cand' = [cand EXCEPT ![s] = NoCandidate]
               /\ pc' = [pc EXCEPT ![s] = "select"]
               /\ limit_skipped' = limit_skipped \cup {<<t, k>>}
               /\ UNCHANGED <<found, tablet_lock>>
          ELSE /\ tablet_lock' = [tablet_lock EXCEPT ![t][k] = "free"]
               /\ found' = [found EXCEPT ![s] = TRUE]
               /\ pc' = [pc EXCEPT ![s] = "insert"]
               /\ UNCHANGED <<compaction_task, tmp_candidates, cand, limit_skipped, ivars>>
    /\ UNCHANGED <<registry, pool, running, tablet_state, need_compaction, last_failure_ms,
                   evars>>
    /\ UNCHANGED <<rvars, mvars, dvars, expected, round_log, capacity_skipped>>

\* the checks under the lock without the reset_op of the rejected task
check_limits_no_reset(s) ==
    /\ pc[s] = "locked"
    /\ LET t == cand[s].tablet
           k == cand[s].type
       IN /\ tablet_lock' = [tablet_lock EXCEPT ![t][k] = "free"]
          /\ IF per_disk_limit_reached(k) \/ too_often(t, k)
             THEN /\ UNCHANGED <<compaction_task, id_assigned>>
                  /\ stale_ptr' = stale_ptr \ {s}
                  /\ tmp_candidates' = [tmp_candidates EXCEPT ![s] = @ \cup {cand[s]}]
                  /\ cand' = [cand EXCEPT ![s] = NoCandidate]
                  /\ pc' = [pc EXCEPT ![s] = "select"]
                  /\ limit_skipped' = limit_skipped \cup {<<t, k>>}
                  /\ UNCHANGED found
             ELSE \* found a qualified tablet
                  /\ found' = [found EXCEPT ![s] = TRUE]
                  /\ pc' = [pc EXCEPT ![s] = "insert"]
                  /\ UNCHANGED <<compaction_task, tmp_candidates, cand, limit_skipped, ivars>>
    /\ UNCHANGED <<registry, pool, running, tablet_state, need_compaction, last_failure_ms,
                   evars>>
    /\ UNCHANGED <<rvars, mvars, dvars, expected, round_log, capacity_skipped>>

\* under the lock: the per-disk limit and the read of the last failure time; the
\* lock is released; then the failure interval; reset_op on every return of false
check_limits(s) ==
    /\ pc[s] = "locked"
    /\ LET t == cand[s].tablet
           k == cand[s].type
       IN /\ tablet_lock' = [tablet_lock EXCEPT ![t][k] = "free"]
          /\ IF per_disk_limit_reached(k) \/ too_often(t, k)
             THEN /\ compaction_task' = reset_compaction(compaction_task, t, k)
                  /\ task_is_reset(s, t, k)
                  /\ tmp_candidates' = [tmp_candidates EXCEPT ![s] = @ \cup {cand[s]}]
                  /\ cand' = [cand EXCEPT ![s] = NoCandidate]
                  /\ pc' = [pc EXCEPT ![s] = "select"]
                  /\ limit_skipped' = limit_skipped \cup {<<t, k>>}
                  /\ UNCHANGED found
             ELSE \* found a qualified tablet
                  /\ found' = [found EXCEPT ![s] = TRUE]
                  /\ pc' = [pc EXCEPT ![s] = "insert"]
                  /\ UNCHANGED <<compaction_task, tmp_candidates, cand, limit_skipped, ivars>>
    /\ UNCHANGED <<registry, pool, running, tablet_state, need_compaction, last_failure_ms,
                   evars>>
    /\ UNCHANGED <<rvars, mvars, dvars, expected, round_log, capacity_skipped>>

\* the end of a round that forgets the candidates it kept
insert_tmp_candidates_dropping(s) ==
    /\ pc[s] = "insert"
    /\ tmp_candidates' = [tmp_candidates EXCEPT ![s] = {}]
    /\ pc' = [pc EXCEPT ![s] = IF found[s] THEN "submit" ELSE "sleep"]
    /\ expected' = [expected EXCEPT ![s] = Candidates]
    /\ round_log' = [round_log EXCEPT ![s] = NoLog]
    /\ UNCHANGED <<registry, pool, running, tvars, evars, cand, found, capacity_skipped,
                   limit_skipped, ivars>>
    /\ UNCHANGED <<rvars, mvars, dvars>>

\* insert_candidates(std::move(tmp_candidates)); return the task or nullptr
insert_tmp_candidates(s) ==
    /\ pc[s] = "insert"
    /\ registry' = insert_candidates(registry, tmp_candidates[s])
    /\ tmp_candidates' = [tmp_candidates EXCEPT ![s] = {}]
    /\ pc' = [pc EXCEPT ![s] = IF found[s] THEN "submit" ELSE "sleep"]
    /\ expected' = [expected EXCEPT ![s] = Candidates]
    /\ round_log' = [round_log EXCEPT ![s] = NoLog]
    /\ UNCHANGED <<pool, running, tvars, evars, cand, found, capacity_skipped, limit_skipped,
                   ivars>>
    /\ UNCHANGED <<rvars, mvars, dvars>>

\* submit_func() accepts the task
submit_ok(s) ==
    /\ pc[s] = "submit"
    /\ pool_size < MaxPoolSize
    /\ set_task_id(s, cand[s].tablet, cand[s].type)
    /\ pool' = [pool EXCEPT ![cand[s].tablet][cand[s].type] = @ + 1]
    /\ cand' = [cand EXCEPT ![s] = NoCandidate]
    /\ found' = [found EXCEPT ![s] = FALSE]
    /\ pc' = [pc EXCEPT ![s] = "wait"]
    /\ UNCHANGED <<registry, running, tvars, evars, tmp_candidates>>
    /\ UNCHANGED <<rvars, mvars, dvars, expected, round_log, capacity_skipped, limit_skipped>>

\* a failed submission that ends schedule()
submit_failed_returning(s) ==
    /\ pc[s] = "submit"
    /\ compaction_task' = reset_compaction(compaction_task, cand[s].tablet, cand[s].type)
    /\ task_is_reset(s, cand[s].tablet, cand[s].type)
    /\ registry' = update_candidates(registry, cand[s].tablet, cand[s].type)
    /\ cand' = [cand EXCEPT ![s] = NoCandidate]
    /\ found' = [found EXCEPT ![s] = FALSE]
    /\ pc' = [pc EXCEPT ![s] = "returned"]
    /\ UNCHANGED <<pool, running, tablet_state, need_compaction, tablet_lock, last_failure_ms,
                   evars, tmp_candidates>>
    /\ UNCHANGED <<rvars, mvars, dvars, expected, round_log, capacity_skipped, limit_skipped>>

\* a failed submission that the tablet records as a failure of the compaction
submit_failed_stamping(s) ==
    /\ pc[s] = "submit"
    /\ compaction_task' = reset_compaction(compaction_task, cand[s].tablet, cand[s].type)
    /\ task_is_reset(s, cand[s].tablet, cand[s].type)
    /\ last_failure_ms' = [last_failure_ms EXCEPT ![cand[s].tablet][cand[s].type] = now_ms]
    /\ registry' = update_candidates(registry, cand[s].tablet, cand[s].type)
    /\ cand' = [cand EXCEPT ![s] = NoCandidate]
    /\ found' = [found EXCEPT ![s] = FALSE]
    /\ pc' = [pc EXCEPT ![s] = "wait"]
    /\ UNCHANGED <<pool, running, tablet_state, need_compaction, tablet_lock, evars,
                   tmp_candidates>>
    /\ UNCHANGED <<rvars, mvars, dvars, expected, round_log, capacity_skipped, limit_skipped>>

\* a failed submission that leaves the task of the tablet in place
submit_failed_no_reset(s) ==
    /\ pc[s] = "submit"
    /\ set_task_id(s, cand[s].tablet, cand[s].type)
    /\ registry' = update_candidates(registry, cand[s].tablet, cand[s].type)
    /\ cand' = [cand EXCEPT ![s] = NoCandidate]
    /\ found' = [found EXCEPT ![s] = FALSE]
    /\ pc' = [pc EXCEPT ![s] = "wait"]
    /\ UNCHANGED <<pool, running, tvars, evars, tmp_candidates>>
    /\ UNCHANGED <<rvars, mvars, dvars, expected, round_log, capacity_skipped, limit_skipped>>

\* submit_func() fails: reset_compaction() and update_candidates({candidate})
submit_failed(s) ==
    /\ pc[s] = "submit"
    /\ compaction_task' = reset_compaction(compaction_task, cand[s].tablet, cand[s].type)
    /\ task_is_reset(s, cand[s].tablet, cand[s].type)
    /\ registry' = update_candidates(registry, cand[s].tablet, cand[s].type)
    /\ cand' = [cand EXCEPT ![s] = NoCandidate]
    /\ found' = [found EXCEPT ![s] = FALSE]
    /\ pc' = [pc EXCEPT ![s] = "wait"]
    /\ UNCHANGED <<pool, running, tablet_state, need_compaction, tablet_lock, last_failure_ms,
                   evars, tmp_candidates>>
    /\ UNCHANGED <<rvars, mvars, dvars, expected, round_log, capacity_skipped, limit_skipped>>

\* a sleep that no timeout ends
sleep_unbounded(s) ==
    /\ pc[s] = "sleep"
    /\ UNCHANGED vars

\* no task: _cv.wait_for(lk, 10000ms), then the next round
sleep_done(s) ==
    /\ pc[s] = "sleep"
    /\ pc' = [pc EXCEPT ![s] = "wait"]
    /\ UNCHANGED <<registry, pool, running, tvars, evars, cand, tmp_candidates, found>>
    /\ UNCHANGED <<rvars, mvars, dvars, hvars>>

\* ------------------------------------------------------------------------
\* The environment of the scheduler
\* ------------------------------------------------------------------------
\* a thread of the pool starts a task it was handed: start() registers the task
\* with the CompactionManager, which counts it as running
task_start(t, k) ==
    /\ running[t][k] < pool[t][k]
    /\ running' = [running EXCEPT ![t][k] = @ + 1]
    /\ UNCHANGED <<registry, pool, tvars, evars, lvars>>
    /\ UNCHANGED <<rvars, mvars, dvars, hvars>>

\* a running task ends: it is unregistered and the tablet resets its task; a
\* failure is timestamped
task_finished(t, k) ==
    /\ running[t][k] > 0
    /\ pool' = [pool EXCEPT ![t][k] = @ - 1]
    /\ running' = [running EXCEPT ![t][k] = @ - 1]
    /\ compaction_task' = reset_compaction(compaction_task, t, k)
    /\ task_is_reset("null", t, k)
    /\ UNCHANGED <<registry, tablet_state, need_compaction, tablet_lock, last_failure_ms,
                   evars, lvars>>
    /\ UNCHANGED <<rvars, mvars, dvars, expected, round_log, capacity_skipped, limit_skipped>>

task_failed(t, k) ==
    /\ running[t][k] > 0
    /\ env_steps < MaxEnvSteps
    /\ env_steps' = env_steps + 1
    /\ pool' = [pool EXCEPT ![t][k] = @ - 1]
    /\ running' = [running EXCEPT ![t][k] = @ - 1]
    /\ compaction_task' = reset_compaction(compaction_task, t, k)
    /\ task_is_reset("null", t, k)
    /\ last_failure_ms' = [last_failure_ms EXCEPT ![t][k] = now_ms]
    /\ UNCHANGED <<registry, tablet_state, need_compaction, tablet_lock, capacity_limit,
                   threads_per_disk, now_ms, updates, lvars>>
    /\ UNCHANGED <<rvars, mvars, dvars, expected, round_log, capacity_skipped, limit_skipped>>

\* ingestion updates a candidate of the registry
ingest(t, k) ==
    /\ updates < MaxUpdates
    /\ updates' = updates + 1
    /\ registry' = update_candidates(registry, t, k)
    /\ round_log' = [s \in Schedulers |-> NoLog]
    /\ UNCHANGED <<pool, running, tvars, capacity_limit, threads_per_disk, now_ms,
                   env_steps, lvars>>
    /\ UNCHANGED <<rvars, mvars, dvars, expected, capacity_skipped, limit_skipped, ivars>>

\* time passes; it is observed only relative to a recorded failure
tick ==
    /\ now_ms < MaxTime
    /\ \E t \in Tablets, k \in Kinds : last_failure_ms[t][k] # 0
    /\ now_ms' = now_ms + 1
    /\ UNCHANGED <<registry, pool, running, tvars, capacity_limit, threads_per_disk, updates,
                   env_steps, lvars>>
    /\ UNCHANGED <<rvars, mvars, dvars, hvars>>

\* a change away from the initial environment is counted, the way back is not
env_step(away) ==
    /\ away => env_steps < MaxEnvSteps
    /\ env_steps' = IF away THEN env_steps + 1 ELSE env_steps

set_tablet_state(t) ==
    /\ env_step(tablet_state[t] = "TABLET_RUNNING")
    /\ tablet_state' = [tablet_state EXCEPT ![t] =
                           IF @ = "TABLET_RUNNING" THEN "TABLET_SHUTDOWN" ELSE "TABLET_RUNNING"]
    /\ UNCHANGED <<registry, pool, running, need_compaction, compaction_task, tablet_lock,
                   last_failure_ms, capacity_limit, threads_per_disk, now_ms, updates, lvars>>
    /\ UNCHANGED <<rvars, mvars, dvars, hvars>>

set_need_compaction(t, k) ==
    /\ env_step(need_compaction[t][k])
    /\ need_compaction' = [need_compaction EXCEPT ![t][k] = ~@]
    /\ UNCHANGED <<registry, pool, running, tablet_state, compaction_task, tablet_lock,
                   last_failure_ms, capacity_limit, threads_per_disk, now_ms, updates, lvars>>
    /\ UNCHANGED <<rvars, mvars, dvars, hvars>>

\* another party takes or releases a tablet lock
other_lock(t, k) ==
    /\ env_step(TRUE)
    /\ tablet_lock[t][k] = "free"
    /\ tablet_lock' = [tablet_lock EXCEPT ![t][k] = "other"]
    /\ UNCHANGED <<registry, pool, running, tablet_state, need_compaction, compaction_task,
                   last_failure_ms, capacity_limit, threads_per_disk, now_ms, updates, lvars>>
    /\ UNCHANGED <<rvars, mvars, dvars, hvars>>

other_unlock(t, k) ==
    /\ tablet_lock[t][k] = "other"
    /\ tablet_lock' = [tablet_lock EXCEPT ![t][k] = "free"]
    /\ UNCHANGED <<registry, pool, running, tablet_state, need_compaction, compaction_task,
                   last_failure_ms, evars, lvars>>
    /\ UNCHANGED <<rvars, mvars, dvars, hvars>>

set_capacity_limit ==
    /\ env_step(~capacity_limit)
    /\ capacity_limit' = ~capacity_limit
    /\ UNCHANGED <<registry, pool, running, tvars, threads_per_disk, now_ms, updates, lvars>>
    /\ UNCHANGED <<rvars, mvars, dvars, hvars>>

set_threads_per_disk(k) ==
    /\ env_step(threads_per_disk[k] = 1)
    /\ threads_per_disk' = [threads_per_disk EXCEPT ![k] = IF @ = 1 THEN -1 ELSE 1]
    /\ UNCHANGED <<registry, pool, running, tvars, capacity_limit, now_ms, updates, lvars>>
    /\ UNCHANGED <<rvars, mvars, dvars, hvars>>

\* a round of a scheduler after _wait_to_run() has returned, and its submission
RoundStep(s) ==
    \/ select_next(s)
    \/ pick_candidate(s)
    \/ check_precondition(s)
    \/ create_task(s)
    \/ try_lock(s)
    \/ check_limits(s)
    \/ insert_tmp_candidates(s)
    \/ submit_ok(s)
    \/ submit_failed(s)
    \/ sleep_done(s)

EnvStep ==
    \/ \E t \in Tablets, k \in Kinds : task_start(t, k)
    \/ \E t \in Tablets, k \in Kinds : task_finished(t, k)
    \/ \E t \in Tablets, k \in Kinds : task_failed(t, k)
    \/ \E t \in Tablets, k \in Kinds : ingest(t, k)
    \/ tick
    \/ \E t \in Tablets : set_tablet_state(t)
    \/ \E t \in Tablets, k \in Kinds : set_need_compaction(t, k)
    \/ \E t \in Tablets, k \in Kinds : other_lock(t, k)
    \/ \E t \in Tablets, k \in Kinds : other_unlock(t, k)
    \/ set_capacity_limit
    \/ \E k \in Kinds : set_threads_per_disk(k)

\* one scheduler and its environment
SchedNext == _wait_to_run_alone("S1") \/ RoundStep("S1") \/ EnvStep

\* two schedulers share the registry and the tablets; of the environment, only
\* ingestion and the end of tasks
RaceNext ==
    \/ \E s \in Schedulers : _wait_to_run(s) \/ RoundStep(s)
    \/ \E t \in Tablets, k \in Kinds : task_start(t, k)
    \/ \E t \in Tablets, k \in Kinds : task_finished(t, k)
    \/ \E t \in Tablets, k \in Kinds : ingest(t, k)

\* one scheduler with its two timed waits and the notifications written out; of
\* the environment, ingestion and the end of tasks, which make the wait-to-run
\* predicate true and false
FairNext ==
    \/ _wait_to_run_alone("S1")
    \/ wait_blocks("S1")
    \/ wait_timeout("S1")
    \/ RoundStep("S1")
    \/ notify("S1")
    \/ \E t \in Tablets, k \in Kinds : task_start(t, k)
    \/ \E t \in Tablets, k \in Kinds : task_finished(t, k)
    \/ \E t \in Tablets, k \in Kinds : ingest(t, k)

\* one scheduler, the tasks of the pool, ingestion and another party that takes
\* and releases the tablet locks
LiveNext ==
    \/ _wait_to_run_alone("S1")
    \/ RoundStep("S1")
    \/ \E t \in Tablets, k \in Kinds : task_start(t, k)
    \/ \E t \in Tablets, k \in Kinds : task_finished(t, k)
    \/ \E t \in Tablets, k \in Kinds : ingest(t, k)
    \/ \E t \in Tablets, k \in Kinds : other_lock(t, k)
    \/ \E t \in Tablets, k \in Kinds : other_unlock(t, k)

\* the scheduler at rest, for the specification of the rowset alone
SchedIdle ==
    /\ registry = {}
    /\ pool = [t \in Tablets |-> [k \in Kinds |-> 0]]
    /\ tablet_state = [t \in Tablets |-> "TABLET_RUNNING"]
    /\ need_compaction = [t \in Tablets |-> [k \in Kinds |-> TRUE]]
    /\ compaction_task = [t \in Tablets |-> [k \in Kinds |-> FALSE]]
    /\ tablet_lock = [t \in Tablets |-> [k \in Kinds |-> "free"]]
    /\ last_failure_ms = [t \in Tablets |-> [k \in Kinds |-> 0]]
    /\ capacity_limit = FALSE
    /\ threads_per_disk = [k \in Kinds |-> 1]
    /\ now_ms = StartTime
    /\ pc = [s \in Schedulers |-> "wait"]
    /\ cand = [s \in Schedulers |-> NoCandidate]
    /\ tmp_candidates = [s \in Schedulers |-> {}]
    /\ found = [s \in Schedulers |-> FALSE]
    /\ updates = 0
    /\ env_steps = 0
    /\ expected = [s \in Schedulers |-> Candidates]
    /\ capacity_skipped = {}
    /\ limit_skipped = {}
    /\ running = [t \in Tablets |-> [k \in Kinds |-> 0]]
    /\ id_assigned = [t \in Tablets |-> [k \in Kinds |-> FALSE]]
    /\ stale_ptr = {}
    /\ round_log = [s \in Schedulers |-> NoLog]

\* a rowset after construction, no scheduler running
RowsetOnlyInit == RowsetInit /\ SchedIdle /\ MachineInit /\ DeltaInit

\* the schedulers after construction, the rowset untouched
SchedulerInit == SchedInit /\ RowsetInit /\ MachineInit /\ DeltaInit

\* a state machine after construction, used on its own
MachineOnlyInit == MachineInit /\ RowsetInit /\ SchedIdle /\ DeltaInit

RowsetSpec == RowsetOnlyInit /\ [][RowsetNext]_vars

SchedSpec == SchedulerInit /\ [][SchedNext]_vars

RaceSpec == SchedulerInit /\ [][RaceNext]_vars

MachineSpec == MachineOnlyInit /\ [][MachineNext]_vars

\* The delta writer alone: the other parts stay in their initial state.
DeltaOnlyInit == DeltaInit /\ RowsetInit /\ SchedIdle /\ MachineInit
DeltaSpec == DeltaOnlyInit /\ [][DeltaNext]_vars

\* The scheduler thread keeps running: a step of its round that can be taken is
\* taken, and _wait_to_run() returns when it can. Nothing is assumed of the
\* environment: a lock another party holds may be held for ever.
LiveSpec ==
    /\ SchedulerInit
    /\ [][LiveNext]_vars
    /\ WF_vars(_wait_to_run_alone("S1"))
    /\ WF_vars(RoundStep("S1"))

\* The scheduler thread keeps running and the timeouts of its two wait_for calls
\* expire: a check of the predicate that can return does return, a timed wait
\* ends after its 5000ms, a sleep after its 10000ms. Nothing is assumed of
\* notify(), of ingestion or of the tasks of the pool.
FairSpec ==
    /\ SchedulerInit
    /\ [][FairNext]_vars
    /\ WF_vars(_wait_to_run_alone("S1"))
    /\ WF_vars(wait_timeout("S1"))
    /\ WF_vars(sleep_done("S1"))

\* ========================================================================
\* Properties
\* ========================================================================
\* admissions of a task of kind k for tablet t that are submitted or running, or
\* made and about to be submitted
InFlight(t, k) ==
    pool[t][k] + Cardinality({s \in Schedulers :
                                 found[s] /\ cand[s].tablet = t /\ cand[s].type = k})

\* C1: selection never admits two tasks of the same kind for the same tablet
\* concurrently: while an admitted task of tablet t and kind k is submitted or
\* running there is no second admission for (t, k).
C1_OneAdmissionPerTabletAndKind ==
    \A t \in Tablets, k \in Kinds : InFlight(t, k) <= 1

OpenIff ==
    resources_open <=> (\/ rowset_state = "ROWSET_LOADED"
                        \/ (rowset_state = "ROWSET_UNLOADING" /\ refs_by_reader > 0))

\* C2 as stated: in every reachable state the resources are open iff the state is
\* LOADED, or UNLOADING with a positive reader count.
C2_OpenIffInEveryState == OpenIff

\* C2 as amended: the equivalence holds in every state in which no thread holds the
\* mutex of the rowset and no release() that brought the count to zero is still
\* waiting for it.
C2_OpenIffOutsideCriticalSections ==
    (lock = 0 /\ \A th \in RThreads : rpc[th] # "r_lock") => OpenIff

\* C2 witness: a closed-but-read rowset at rest: UNLOADING, readers left, mutex free
C2_UnloadingWithReaders ==
    /\ lock = 0
    /\ \A th \in RThreads : rpc[th] = "idle"
    /\ rowset_state = "ROWSET_UNLOADING"
    /\ refs_by_reader > 0
    /\ resources_open

\* C3: for a loaded rowset, one close() and matched acquire()/release() pairs: once
\* every call has returned and every acquire() is released, the state is UNLOADED
\* and do_close() ran exactly once.
C3_ClosedExactlyOnce ==
    (/\ \A th \in RThreads : rpc[th] = "idle" /\ holds[th] = 0
     /\ loads >= 1
     /\ closes = 1)
    => (rowset_state = "ROWSET_UNLOADED" /\ do_closes = 1 /\ ~resources_open)

\* C3 witness: the rowset at rest after one close() of a loaded rowset
C3_AtRestAfterClose ==
    /\ \A th \in RThreads : rpc[th] = "idle" /\ holds[th] = 0
    /\ loads >= 1
    /\ closes = 1
    /\ do_closes = 1
    /\ rowset_state = "ROWSET_UNLOADED"

\* C4: do_close() is never executed while a reader has acquired the rowset and not
\* yet released it.
C4_NoCloseUnderReader ==
    [][(resources_open /\ ~resources_open') => refs_by_reader = 0]_vars

\* the scheduler s ends the evaluation of its candidate at the given place
Leaves(s, at) == pc[s] = at /\ pc'[s] # at

\* C5: a candidate re-queued at the capacity check is admitted once capacity frees
\* up: evaluated again with the tablet RUNNING and needing compaction, the lock
\* free, the per-disk limit and the failure interval satisfied and no task of it
\* admitted, it is not dropped.  The candidate evaluated is the re-queued one,
\* taken from the registry in a later round (it is no longer in the scratch list).
C5_CapacitySkippedIsNotDropped ==
    [][\A s \in Schedulers :
          (/\ Leaves(s, "precond")
           /\ <<cand[s].tablet, cand[s].type>> \in capacity_skipped
           /\ cand[s] \notin tmp_candidates[s]
           /\ ~capacity_limit
           /\ tablet_state[cand[s].tablet] = "TABLET_RUNNING"
           /\ need_compaction[cand[s].tablet][cand[s].type]
           /\ tablet_lock[cand[s].tablet][cand[s].type] = "free"
           /\ ~per_disk_limit_reached(cand[s].type)
           /\ now_ms - last_failure_ms[cand[s].tablet][cand[s].type] > MinFailureInterval
           /\ InFlight(cand[s].tablet, cand[s].type) = 0)
          => pc'[s] = "create"]_vars

\* the precondition of the candidate of s fails for one of the reasons of C6
PreconditionFails(s) ==
    \/ tablet_state[cand[s].tablet] # "TABLET_RUNNING"
    \/ ~need_compaction[cand[s].tablet][cand[s].type]
    \/ compaction_task[cand[s].tablet][cand[s].type]

C7_FailedSubmissionUndone ==
    [][\A s \in Schedulers :
          (Leaves(s, "submit") /\ pool' = pool)
          => /\ ~compaction_task'[cand[s].tablet][cand[s].type]
             /\ \E c \in registry' : c.tablet = cand[s].tablet /\ c.type = cand[s].type
             /\ pc'[s] = "wait"
             /\ last_failure_ms' = last_failure_ms]_vars

\* C7 witness: an admitted task is about to be submitted, its candidate not in the
\* registry
C7_AboutToSubmit ==
    \E s \in Schedulers :
        /\ pc[s] = "submit"
        /\ compaction_task[cand[s].tablet][cand[s].type]
        /\ \A c \in registry : ~(c.tablet = cand[s].tablet /\ c.type = cand[s].type)

\* C8: within the failure interval (now - last_failure_time <= the interval) a
\* candidate is never admitted: it is kept for re-insertion; past the interval, with
\* the per-disk limit satisfied, the candidate that reaches the check is admitted.
C8_Backoff ==
    [][\A s \in Schedulers :
          LET t == cand[s].tablet
              k == cand[s].type
              within == now_ms - last_failure_ms[t][k] <= MinFailureInterval
          IN /\ (found'[s] /\ ~found[s]) => ~within
             /\ (Leaves(s, "locked") /\ within)
                => /\ ~found'[s]
                   /\ cand[s] \in tmp_candidates'[s]
                   /\ pc'[s] = "select"
             /\ (Leaves(s, "locked") /\ ~within /\ ~per_disk_limit_reached(k))
                => /\ found'[s]
                   /\ cand'[s] = cand[s]
                   /\ pc'[s] = "insert"]_vars

\* C8 witness: a candidate whose last failure lies past the interval reaches the
\* check
C8_PastTheInterval ==
    \E s \in Schedulers :
        /\ pc[s] = "locked"
        /\ last_failure_ms[cand[s].tablet][cand[s].type] # 0
        /\ now_ms - last_failure_ms[cand[s].tablet][cand[s].type] > MinFailureInterval
        /\ ~per_disk_limit_reached(cand[s].type)

\* C9: a candidate whose tablet lock of its kind is held by another party when it
\* is evaluated is not admitted and is kept; what a round keeps stays kept until
\* the round ends, and is then in the registry.
C9_LockedCandidateRequeued ==
    [][\A s \in Schedulers :
          /\ (Leaves(s, "trylock") /\ tablet_lock[cand[s].tablet][cand[s].type] # "free")
             => /\ ~found'[s]
                /\ cand[s] \in tmp_candidates'[s]
                /\ pc'[s] = "select"
          /\ IF Leaves(s, "insert")
             THEN tmp_candidates[s] \subseteq registry'
             ELSE tmp_candidates[s] \subseteq tmp_candidates'[s]]_vars

\* C9 witness: a round ends with a candidate kept whose tablet lock another party
\* holds
C9_RoundEndsWithLockedCandidate ==
    \E s \in Schedulers :
        /\ pc[s] = "insert"
        /\ \E c \in tmp_candidates[s] : tablet_lock[c.tablet][c.type] = "other"

\* C10: when every candidate of the registry is admissible as a round begins and
\* nothing changes, the round admits a candidate the registry ranks highest and
\* keeps none back.
C10_AdmitsHighest ==
    \A s \in Schedulers :
        (expected[s] # Candidates /\ env_steps = 0 /\ updates = 0)
        => /\ found[s] => cand[s] \in expected[s]
           /\ pc[s] = "insert" => found[s]
           /\ tmp_candidates[s] = {}

\* C10 witness: with T1/CUMULATIVE admitted by an earlier round and running, the
\* next round admits T2/BASE
C10_SecondRoundAdmitsBase ==
    /\ pc["S1"] = "insert"
    /\ found["S1"]
    /\ cand["S1"] = Candidate("T2", "BASE_COMPACTION")
    /\ expected["S1"] = {Candidate("T2", "BASE_COMPACTION")}
    /\ pool["T1"]["CUMULATIVE_COMPACTION"] = 1
    /\ env_steps = 0
    /\ updates = 0

\* C11: a transition attempted from a disallowed state fails and leaves the state
\* unchanged: on_load() from LOADED or UNLOADING, on_close(n) for any n from
\* UNLOADED or UNLOADING, on_release() from UNLOADED or LOADED.
C11_DisallowedTransitionFails ==
    (\/ sm_op = "on_load" /\ sm_from \in {"ROWSET_LOADED", "ROWSET_UNLOADING"}
     \/ sm_op = "on_close" /\ sm_from \in {"ROWSET_UNLOADED", "ROWSET_UNLOADING"}
     \/ sm_op = "on_release" /\ sm_from \in {"ROWSET_UNLOADED", "ROWSET_LOADED"})
    => (sm_status = "InternalError" /\ sm_state = sm_from)

\* C11 witness: on_release() was called on a loaded machine
C11_ReleaseCalledWhenLoaded ==
    /\ sm_op = "on_release"
    /\ sm_from = "ROWSET_LOADED"
    /\ sm_status = "InternalError"

\* the state a legal call leads to, "none" when the call is not legal
LegalTarget(op, from, refs) ==
    IF op = "on_load" /\ from = "ROWSET_UNLOADED" THEN "ROWSET_LOADED"
    ELSE IF op = "on_close" /\ from = "ROWSET_LOADED"
         THEN (IF refs = 0 THEN "ROWSET_UNLOADED" ELSE "ROWSET_UNLOADING")
    ELSE IF op = "on_release" /\ from = "ROWSET_UNLOADING" THEN "ROWSET_UNLOADED"
    ELSE "none"

\* C12: the initial state is UNLOADED, and the calls that succeed are exactly
\* on_load() from UNLOADED (to LOADED), on_close(n) from LOADED (to UNLOADED when
\* n = 0, to UNLOADING when n > 0) and on_release() from UNLOADING (to UNLOADED).
C12_LegalTransitionsExactly ==
    /\ sm_calls = 0 => sm_state = "ROWSET_UNLOADED"
    /\ sm_calls > 0 =>
          /\ sm_status = "OK" <=> LegalTarget(sm_op, sm_from, sm_refs) # "none"
          /\ sm_status = "OK" => sm_state = LegalTarget(sm_op, sm_from, sm_refs)

\* C12 witness: on_close(n) with n > 0 took a loaded machine to UNLOADING
C12_ClosedWithReaders ==
    /\ sm_op = "on_close"
    /\ sm_refs > 0
    /\ sm_from = "ROWSET_LOADED"
    /\ sm_state = "ROWSET_UNLOADING"
    /\ sm_status = "OK"

\* where a thread is inside close() and inside load()
ClosePcs == {"c_lock", "c_close", "c_state"}
LoadPcs == {"l_lock", "l_load"}

\* the thread th takes a step of the operation whose positions are pcs
StepsIn(th, pcs) == rpc[th] \in pcs /\ rpc'[th] # rpc[th]

\* C13: close() while the state is UNLOADED or UNLOADING is a no-op: whether it
\* sees the state at its first read or under the mutex, it returns with the state,
\* the reader count and the resources unchanged and without calling do_close().
C13_CloseOfUnloadedIsNoOp ==
    [][\A th \in RThreads :
          (rowset_state # "ROWSET_LOADED" /\ (close_begin(th) \/ StepsIn(th, ClosePcs)))
          => /\ rpc'[th] = "idle"
             /\ UNCHANGED <<rowset_state, refs_by_reader, resources_open, do_closes>>]_vars

\* C13 witness: a second close() has returned on a rowset the first one left
\* UNLOADING
C13_ClosedTwiceWhileUnloading ==
    /\ \A th \in RThreads : rpc[th] = "idle"
    /\ closes = 2
    /\ do_closes = 0
    /\ rowset_state = "ROWSET_UNLOADING"
    /\ resources_open

C15_CloseByCount ==
    [][\A th \in RThreads :
          /\ (rpc[th] = "c_lock" /\ rpc'[th] = "c_close")
             => (lock' = th /\ current_refs'[th] = refs_by_reader)
          /\ (rpc[th] = "c_state" /\ rpc'[th] = "idle")
             => IF current_refs[th] = 0
                THEN rowset_state' = "ROWSET_UNLOADED" /\ ~resources_open'
                ELSE rowset_state' = "ROWSET_UNLOADING" /\ resources_open']_vars

\* C15 witness: one close() of a rowset with readers has returned
C15_ClosedWithReadersLeft ==
    /\ \A th \in RThreads : rpc[th] = "idle"
    /\ closes = 1
    /\ do_closes = 0
    /\ refs_by_reader > 0
    /\ rowset_state = "ROWSET_UNLOADING"
    /\ resources_open

\* C16: release() decrements the reader count by one; it releases the resources
\* and moves UNLOADING to UNLOADED only when, under the mutex, the count is zero
\* and the state is UNLOADING; otherwise the state and the resources are unchanged.
C16_ReleaseClosesLast ==
    [][\A th \in RThreads :
          /\ (rpc[th] = "idle" /\ holds'[th] < holds[th])
             => /\ refs_by_reader' = refs_by_reader - 1
                /\ UNCHANGED <<rowset_state, resources_open>>
          /\ StepsIn(th, {"r_lock"})
             => /\ UNCHANGED <<rowset_state, resources_open>>
                /\ rpc'[th] = "r_close"
                   <=> (refs_by_reader = 0 /\ rowset_state = "ROWSET_UNLOADING")
          /\ StepsIn(th, {"r_close"})
             => /\ rowset_state = "ROWSET_UNLOADING"
                /\ rowset_state' = "ROWSET_UNLOADED"
                /\ ~resources_open']_vars

\* C16 witness: the last releaser of a closed rowset holds the mutex and is about
\* to release the resources
C16_LastReleaserCloses ==
    \E th \in RThreads :
        /\ rpc[th] = "r_close"
        /\ lock = th
        /\ rowset_state = "ROWSET_UNLOADING"
        /\ resources_open

\* C17: acquire() can be called in every state of the rowset, and all it does is
\* to add one to the reader count.
C17_AcquireOnlyCounts ==
    /\ [](\A th \in RThreads :
             (rpc[th] = "idle" /\ holds[th] < MaxHolds) => ENABLED acquire(th))
    /\ [][\A th \in RThreads :
             holds'[th] > holds[th]
             => /\ refs_by_reader' = refs_by_reader + 1
                /\ UNCHANGED <<rowset_state, resources_open>>]_vars

\* C17 witness: readers acquired a rowset that was never loaded
C17_AcquiredWhileUnloaded ==
    /\ loads = 0
    /\ rowset_state = "ROWSET_UNLOADED"
    /\ ~resources_open
    /\ \A th \in RThreads : holds[th] > 0

\* C18: load() of a rowset that is LOADED, at its first read or under the mutex,
\* is a no-op: the state stays LOADED and do_load() is not executed again.
C18_LoadOfLoadedIsNoOp ==
    [][rowset_state = "ROWSET_LOADED"
       => /\ loads' = loads
          /\ \A th \in RThreads :
                (load_begin(th) \/ StepsIn(th, LoadPcs))
                => /\ rpc'[th] = "idle"
                   /\ UNCHANGED <<rowset_state, resources_open, refs_by_reader>>]_vars

\* C18 witness: a load() that began on an unloaded rowset waits for the mutex
\* while another load() has loaded the rowset
C18_LoadFindsLoaded ==
    \E th \in RThreads :
        /\ rpc[th] = "l_lock"
        /\ lock = 0
        /\ loads = 1
        /\ rowset_state = "ROWSET_LOADED"

\* C19: close() returns normally in every state: each of its exits leads back to
\* the caller with the mutex released, and a closer past the mutex holds it, so
\* nothing but the mutex makes it wait.
C19_CloseReturns ==
    /\ [](\A th \in RThreads : rpc[th] \in {"c_close", "c_state"} => lock = th)
    /\ [][\A th \in RThreads :
             /\ (StepsIn(th, ClosePcs) /\ rpc'[th] \notin ClosePcs)
                => (rpc'[th] = "idle" /\ lock' # th)
             /\ close_begin(th) => rpc'[th] \in {"idle", "c_lock"}]_vars

\* C19 witness: close() has returned on a rowset that was never loaded
C19_ClosedNeverLoaded ==
    /\ \A th \in RThreads : rpc[th] = "idle"
    /\ loads = 0
    /\ closes >= 1
    /\ rowset_state = "ROWSET_UNLOADED"

\* C20: the reader count is the number of acquire() calls not yet undone by the
\* decrement of a release(): no update of concurrent threads is lost.
C20_NoLostUpdate ==
    refs_by_reader = SumOver(RThreads, holds)

\* C20 witness: every thread holds the rowset as often as it may
C20_AllThreadsHold ==
    /\ \A th \in RThreads : holds[th] = MaxHolds
    /\ refs_by_reader = NumThreads * MaxHolds

\* C21: a candidate that passes the precondition but for which the tablet makes no
\* task (get_compaction(type, true) returns none) is dropped: it is not admitted
\* and not kept for the re-insertion at the end of the round, and the selection
\* goes on.
C21_FailedCreationDrops ==
    [][\A s \in Schedulers :
          (Leaves(s, "create")
           /\ get_compaction(cand[s].tablet, cand[s].type, TRUE) = "none")
          => /\ ~found'[s]
             /\ tmp_candidates'[s] = tmp_candidates[s]
             /\ pc'[s] = "select"]_vars

\* the evaluation of the candidate of s ends with this step
EvaluationEnds(s) ==
    /\ pc[s] \in {"precond", "create", "trylock", "locked"}
    /\ pc'[s] \in {"select", "insert"}

C23_LimitSkippedIsRetried ==
    [][\A s \in Schedulers :
          LET t == cand[s].tablet
              k == cand[s].type
          IN /\ (/\ Leaves(s, "precond")
                 /\ <<t, k>> \in limit_skipped
                 /\ cand[s] \notin tmp_candidates[s]
                 /\ tablet_state[t] = "TABLET_RUNNING"
                 /\ need_compaction[t][k]
                 /\ InFlight(t, k) = 0)
                => pc'[s] = "create"
             /\ (Leaves(s, "create") /\ need_compaction[t][k] /\ ~capacity_limit)
                => pc'[s] = "trylock"
             /\ (Leaves(s, "trylock") /\ tablet_lock[t][k] = "free")
                => pc'[s] = "locked"
             /\ (/\ Leaves(s, "locked")
                 /\ ~(threads_per_disk[k] >= 0
                      /\ running_tasks_num_for_dir(k) >= threads_per_disk[k])
                 /\ now_ms - last_failure_ms[t][k] > MinFailureInterval)
                => (found'[s] /\ cand'[s] = cand[s])]_vars

\* C23 witness: a candidate kept by an earlier round for one of these reasons is
\* evaluated again after the reason has cleared
C23_RetriedAfterClearing ==
    \E s \in Schedulers :
        /\ pc[s] = "precond"
        /\ <<cand[s].tablet, cand[s].type>> \in limit_skipped
        /\ cand[s] \notin tmp_candidates[s]
        /\ Admissible(cand[s])

\* C24: an admission attempt of a scheduler that is rejected at the tablet lock,
\* the per-disk limit or the failure interval does not reset the task of a tablet
\* and kind for which an admitted task is submitted or running.
C24_RejectionKeepsAdmittedTask ==
    [][\A s \in Schedulers :
          LET t == cand[s].tablet
              k == cand[s].type
          IN (/\ pc[s] \in {"trylock", "locked"}
              /\ pc'[s] = "select"
              /\ InFlight(t, k) > 0)
             => compaction_task'[t][k] = compaction_task[t][k]]_vars

\* C25: when a round ends, no candidate the round kept has a task left on its
\* tablet, unless a task of that tablet and kind is admitted: every rejection
\* after the creation of the task (capacity limit, tablet lock, per-disk limit,
\* failure interval) has reset it.
C25_NoTaskLeftByRejection ==
    [][\A s \in Schedulers :
          Leaves(s, "insert")
          => \A c \in tmp_candidates[s] :
                InFlight(c.tablet, c.type) = 0 => ~compaction_task[c.tablet][c.type]]_vars

\* C26: a task is admitted only after every check of its evaluation has passed,
\* in this order: the precondition (tablet RUNNING, compaction needed, no task of
\* the kind yet), the creation of the task with the data dir below its capacity
\* limit, the try-lock of the tablet lock of the kind, the per-disk limit (unless
\* negative) and the failure interval; the admission ends the round.
C26_AdmittedOnlyAfterAllChecks ==
    [][\A s \in Schedulers :
          LET t == cand[s].tablet
              k == cand[s].type
          IN /\ (pc'[s] = "precond" /\ pc[s] # "precond") => pc[s] = "pick"
             /\ (pc'[s] = "create" /\ pc[s] # "create")
                => /\ pc[s] = "precond"
                   /\ tablet_state[t] = "TABLET_RUNNING"
                   /\ need_compaction[t][k]
                   /\ ~compaction_task[t][k]
             /\ (pc'[s] = "trylock" /\ pc[s] # "trylock")
                => /\ pc[s] = "create"
                   /\ get_compaction(t, k, TRUE) # "none"
                   /\ ~capacity_limit
                   /\ compaction_task'[t][k]
             /\ (pc'[s] = "locked" /\ pc[s] # "locked")
                => /\ pc[s] = "trylock"
                   /\ tablet_lock[t][k] = "free"
                   /\ tablet_lock'[t][k] = s
             /\ (found'[s] /\ ~found[s])
                => /\ pc[s] = "locked"
                   /\ tablet_lock[t][k] = s
                   /\ ~(threads_per_disk[k] >= 0
                        /\ running_tasks_num_for_dir(k) >= threads_per_disk[k])
                   /\ now_ms - last_failure_ms[t][k] > MinFailureInterval
                   /\ pc'[s] = "insert"
                   /\ cand'[s] = cand[s]
             /\ found[s] => pc[s] \in {"insert", "submit"}]_vars

\* C26 witness: a task is admitted and the round ends with candidates left in the
\* registry
C26_AdmittedBeforeRegistryEmpty ==
    \E s \in Schedulers :
        /\ pc[s] = "insert"
        /\ found[s]
        /\ tmp_candidates[s] = {}
        /\ registry # {}
        /\ compaction_task[cand[s].tablet][cand[s].type]

\* C27: a candidate is never admitted while the running tasks of its kind on the
\* data dir are at or above a non-negative per-disk maximum: it is kept; with a
\* maximum of -1 the running tasks do not prevent the admission.
C27_PerDiskLimit ==
    [][\A s \in Schedulers :
          LET t == cand[s].tablet
              k == cand[s].type
              num == running_tasks_num_for_dir(k)
          IN /\ (Leaves(s, "locked") /\ threads_per_disk[k] >= 0
                                     /\ num >= threads_per_disk[k])
                => /\ ~found'[s]
                   /\ cand[s] \in tmp_candidates'[s]
                   /\ pc'[s] = "select"
             /\ (Leaves(s, "locked") /\ threads_per_disk[k] = -1
                                     /\ now_ms - last_failure_ms[t][k] > MinFailureInterval)
                => (found'[s] /\ cand'[s] = cand[s])]_vars

\* C27 witness: with the maximum at -1 a candidate is admitted while a task of its
\* kind is running
C27_AdmittedBeyondUnlimited ==
    \E s \in Schedulers :
        /\ pc[s] = "insert"
        /\ found[s]
        /\ threads_per_disk[cand[s].type] = -1
        /\ running_tasks_num_for_dir(cand[s].type) >= 1

\* the wait-to-run predicate: the registry is not empty and the running tasks
\* are below their global maximum
WaitToRunPredicate == Cardinality(registry) > 0 /\ running_tasks_num < MaxTaskNum

\* C28: the scheduler pops a candidate only right after it has observed the
\* wait-to-run predicate true: _wait_to_run() does not return while it is false,
\* a pop is the step that follows a check at the head of the loop that saw it
\* true, and a check that sees it false ends the loop without a pop, the kept
\* candidates being re-inserted all the same.
C28_PopsOnlyAfterPredicate ==
    [][\A s \in Schedulers :
          /\ (Leaves(s, "wait") /\ pc'[s] # "blocked")
             => (WaitToRunPredicate /\ pc'[s] = "select")
          /\ Leaves(s, "blocked") => pc'[s] = "wait"
          /\ Leaves(s, "select")
             => /\ pc'[s] = (IF WaitToRunPredicate THEN "pick" ELSE "insert")
                /\ registry' = registry
                /\ tmp_candidates'[s] = tmp_candidates[s]
          /\ (pc'[s] = "pick" /\ pc[s] # "pick") => pc[s] = "select"
          /\ (cand'[s] # cand[s] /\ is_valid(cand'[s])) => pc[s] = "pick"
          /\ (pc'[s] = "precond" /\ pc[s] # "precond") => pc[s] = "pick"
          /\ Leaves(s, "insert") => registry' = registry \cup tmp_candidates[s]]_vars

\* C28 witness: the loop has stopped at a check that saw the predicate false,
\* with kept candidates to re-insert
C28_LoopStoppedWithKept ==
    \E s \in Schedulers :
        /\ pc[s] = "insert"
        /\ ~found[s]
        /\ ~is_valid(cand[s])
        /\ ~WaitToRunPredicate
        /\ tmp_candidates[s] # {}

\* the scheduler is inside _wait_to_run()
InWaitToRun(s) == pc[s] \in {"wait", "blocked"}

\* C29: if the wait-to-run predicate becomes and stays true while the scheduler
\* waits, the scheduler eventually leaves the wait and starts selection, whether
\* or not a notification ever reaches it: it never stays inside _wait_to_run()
\* for ever with the predicate true.
C29_WaitEndsWithoutNotify ==
    /\ ~<>[](InWaitToRun("S1") /\ WaitToRunPredicate)
    /\ (pc["S1"] = "blocked" /\ WaitToRunPredicate)
          ~> (pc["S1"] = "select" \/ ~WaitToRunPredicate)

\* C29 witness: the scheduler is blocked in its timed wait while the predicate
\* has become true
C29_BlockedWhilePredicateTrue == pc["S1"] = "blocked" /\ WaitToRunPredicate

\* C30: a round that finds no admissible task submits nothing to the pool and
\* sleeps; the sleep ends by a notification or by its timeout, with the start
\* of a new round, and it always ends.
C30_NoTaskSleepsBounded ==
    /\ [][/\ \A s \in Schedulers :
               /\ (Leaves(s, "insert") /\ ~found[s]) => (pc'[s] = "sleep" /\ pool' = pool)
               /\ (pc'[s] = "sleep" /\ pc[s] # "sleep") => (pc[s] = "insert" /\ ~found[s])
               /\ Leaves(s, "sleep") => (pc'[s] = "wait" /\ pool' = pool)
           /\ (\E t \in Tablets, k \in Kinds : pool'[t][k] > pool[t][k])
              => \E w \in Schedulers : pc[w] = "submit" /\ found[w]]_vars
    /\ (pc["S1"] = "sleep") ~> (pc["S1"] = "wait")

\* C30 witness: the scheduler sleeps after a round that kept a candidate and
\* admitted none
C30_SleepsAfterEmptyRound ==
    /\ pc["S1"] = "sleep"
    /\ ~found["S1"]
    /\ registry # {}

\* C31: the task id of a task is assigned once, by the scheduler that submits
\* it: a scheduler never calls set_task_id() on a task whose id has been
\* assigned already, that is on a task that was handed to the pool before.
C31_TaskIdAssignedOnce ==
    [][\A s \in Schedulers :
          (Leaves(s, "submit") /\ s \notin stale_ptr)
             => ~id_assigned[cand[s].tablet][cand[s].type]]_vars

\* nothing outside the scheduler stands in the way of admitting candidate d
Unobstructed(d) ==
    /\ tablet_state[d.tablet] = "TABLET_RUNNING"
    /\ need_compaction[d.tablet][d.type]
    /\ compaction_task[d.tablet][d.type] => (d = cand["S1"] /\ "S1" \notin stale_ptr)
    /\ ~capacity_limit
    /\ tablet_lock[d.tablet][d.type] # "other"
    /\ ~per_disk_limit_reached(d.type)
    /\ ~too_often(d.tablet, d.type)
    /\ ~check_if_exceed_max_task_num

\* C32: the scheduler never blocks on a tablet lock. A try-lock on a lock that
\* another party holds fails at once (the try-lock step can be taken whoever
\* holds the lock): the scheduler takes no lock, keeps the candidate and goes
\* on with the loop; it always leaves the try-lock, even if
\* the lock is held for ever; and a candidate of the registry that nothing
\* obstructs is then admitted.
C32_NeverBlocksOnTabletLock ==
    /\ [](\A s \in Schedulers : pc[s] = "trylock" => ENABLED try_lock(s))
    /\ [][\A s \in Schedulers :
             LET t == cand[s].tablet
                 k == cand[s].type
             IN (Leaves(s, "trylock") /\ tablet_lock[t][k] # "free")
                => /\ tablet_lock' = tablet_lock
                   /\ cand[s] \in tmp_candidates'[s]
                   /\ ~found'[s]
                   /\ pc'[s] = "select"]_vars
    /\ (pc["S1"] = "trylock") ~> (pc["S1"] # "trylock")
    /\ (/\ pc["S1"] = "trylock"
        /\ tablet_lock[cand["S1"].tablet][cand["S1"].type] = "other"
        /\ \E d \in registry : Unobstructed(d))
          ~> (found["S1"] \/ ~\E d \in registry \cup {cand["S1"]} :
                                   is_valid(d) /\ Unobstructed(d))

\* C32 witness: the scheduler has been admitted a candidate in a round in which
\* it kept another one, whose lock another party still holds
C32_AdmittedPastHeldLock ==
    /\ found["S1"]
    /\ \E c \in tmp_candidates["S1"] : tablet_lock[c.tablet][c.type] = "other"

\* C33: once the evaluation of a candidate has ended, admitted or rejected, the
\* scheduler holds no lock of any tablet: it holds a lock only between its
\* successful try-lock and the checks made under it, and only the lock of the
\* kind and tablet of the candidate it evaluates.
C33_NoLockAfterEvaluation ==
    /\ [](\A s \in Schedulers, t \in Tablets, k \in Kinds :
             tablet_lock[t][k] = s
                => (pc[s] = "locked" /\ cand[s].tablet = t /\ cand[s].type = k))
    /\ [][\A s \in Schedulers :
             EvaluationEnds(s)
                => \A t \in Tablets, k \in Kinds : tablet_lock'[t][k] # s]_vars

\* C33 witness: a round has rejected a candidate under its lock and admitted
\* another, and all the locks are free
C33_LocksFreeAfterBothExits ==
    \E s \in Schedulers :
        /\ pc[s] = "insert"
        /\ found[s]
        /\ \E c \in tmp_candidates[s] :
               /\ <<c.tablet, c.type>> \in limit_skipped
               /\ per_disk_limit_reached(c.type)
        /\ \A t \in Tablets, k \in Kinds : tablet_lock[t][k] = "free"

\* C34: the two locks of a tablet are independent. The try-lock of a candidate
\* succeeds exactly when the lock of its own kind is free and touches no other
\* lock, and the checks under it read the per-disk count and the failure time
\* of its own kind only: the state of the other kind on the same tablet decides
\* nothing, so the candidate is admitted while the lock of the other kind is
\* held.
C34_KindsAreIndependent ==
    [][\A s \in Schedulers :
          LET t == cand[s].tablet
              k == cand[s].type
          IN /\ Leaves(s, "trylock")
                => /\ (pc'[s] = "locked") <=> (tablet_lock[t][k] = "free")
                   /\ \A u \in Tablets, j \in Kinds :
                          (u # t \/ j # k) => tablet_lock'[u][j] = tablet_lock[u][j]
             /\ Leaves(s, "locked")
                => /\ found'[s] <=>
                          /\ ~(/\ threads_per_disk[k] >= 0
                               /\ running_tasks_num_for_dir(k) >= threads_per_disk[k])
                          /\ now_ms - last_failure_ms[t][k] > MinFailureInterval
                   /\ \A u \in Tablets, j \in Kinds :
                          (u # t \/ j # k) => tablet_lock'[u][j] = tablet_lock[u][j]]_vars

\* C34 witness: the scheduler holds the lock of the kind of its candidate while
\* another party holds the lock of the other kind of the same tablet, and the
\* checks under the lock are about to admit the candidate
C34_AdmittedBesideOtherKindsLock ==
    \E s \in Schedulers, j \in Kinds :
        /\ pc[s] = "locked"
        /\ j # cand[s].type
        /\ tablet_lock[cand[s].tablet][cand[s].type] = s
        /\ tablet_lock[cand[s].tablet][j] = "other"
        /\ ~per_disk_limit_reached(cand[s].type)
        /\ ~too_often(cand[s].tablet, cand[s].type)

\* a step of a scheduler: every one moves the scheduler in schedule()
SchedulerStep == \E s \in Schedulers : pc'[s] # pc[s]

\* C35: no step of a scheduler, be it a selection, an admission, a rejection, a
\* submission or the undoing of a failed submission, changes a last failure
\* time of a tablet or a count of running tasks; a failed submission leaves the
\* failure time of its tablet as it was.
C35_FailureTimeAndCountsReadOnly ==
    [][/\ SchedulerStep => (last_failure_ms' = last_failure_ms /\ running' = running)
       /\ \A s \in Schedulers :
             (Leaves(s, "submit") /\ pool' = pool)
                => LET t == cand[s].tablet
                       k == cand[s].type
                   IN /\ last_failure_ms'[t][k] = last_failure_ms[t][k]
                      /\ (now_ms' - last_failure_ms'[t][k] <= MinFailureInterval)
                            <=> too_often(t, k)]_vars

\* C35 witness: a submission is about to be made while a task is running and a
\* failure of the tablet and kind is on record
C35_SubmittingWithRecordedFailure ==
    \E s \in Schedulers :
        /\ pc[s] = "submit"
        /\ last_failure_ms[cand[s].tablet][cand[s].type] # 0
        /\ running_tasks_num > 0

\* the positions of a scheduler inside a round and its submission
RoundPcs == {"select", "pick", "precond", "create", "trylock", "locked", "insert",
             "submit", "sleep"}

LoopPcs == {"select", "pick", "precond", "create", "trylock", "locked"}

\* C37: a selection round terminates. In a round during which nothing is inserted
\* into the registry, a pop never returns a candidate that the round has popped
\* before or keeps in its scratch list, the scheduler adds nothing to the
\* registry before the loop ends, and the pops never outnumber the candidates
\* the registry held when the round began; the loop always ends.
C37_RoundTerminates ==
    /\ [](\A s \in Schedulers :
             round_log[s].clean
                => /\ round_log[s].pops <= round_log[s].size
                   /\ round_log[s].pops = Cardinality(round_log[s].popped)
                   /\ registry \cap round_log[s].popped = {})
    /\ [][\A s \in Schedulers :
             /\ (round_log[s].clean /\ Leaves(s, "pick") /\ is_valid(cand'[s]))
                => /\ cand'[s] \notin round_log[s].popped
                   /\ cand'[s] \notin tmp_candidates[s]
                   /\ registry' = registry \ {cand'[s]}
             /\ (pc[s] \in LoopPcs /\ pc'[s] # pc[s]) => registry' \subseteq registry]_vars
    /\ (pc["S1"] \in LoopPcs) ~> (pc["S1"] = "insert")

\* C37 witness: the loop of a round without insertions has ended after it popped
\* every candidate the registry held, more than one, and admitted none
C37_LoopEndedAfterAllPopped ==
    /\ pc["S1"] = "insert"
    /\ ~found["S1"]
    /\ round_log["S1"].clean
    /\ round_log["S1"].size > 1
    /\ round_log["S1"].pops = round_log["S1"].size

\* ------------------------------------------------------------------------
\* C38: after open(), write()*, finish() with every call returning OK, every
\* row accepted by write() has been flushed to the tablet writer when
\* finish() has returned: the tablet writer's rows, and the rows recorded in
\* the transaction log, are the accepted rows, and no row is left only in a
\* memtable.
C38_FinishFlushesEveryAcceptedRow ==
    dw_state = "finished" =>
        /\ num_rows = accepted
        /\ txn_log_rows = accepted
        /\ mem_table_rows = 0

\* the value _can_do_compaction() leaves in *need_reschedule when the step that
\* ends the evaluation of the candidate of s returns: false on a failed
\* precondition, true on a failed creation or a full data dir, and !can_do
\* after _can_do_compaction_task()
need_reschedule(s) ==
    IF pc[s] = "precond" THEN FALSE
    ELSE IF pc[s] = "create" THEN TRUE
    ELSE ~found'[s]

\* ------------------------------------------------------------------------
\* C39: DCHECK(found) in the selection loop holds on every execution: whenever
\* the evaluation of a popped candidate returns with need_reschedule false,
\* the candidate was admitted (found is true).
C39_DcheckFoundHolds ==
    [][\A s \in Schedulers :
          (EvaluationEnds(s) /\ ~need_reschedule(s)) => found'[s]]_vars

====
